---- MODULE Spec2Model ----
(***************************************************************************)
(* Model of the file synchronisation engine of office-local-llm:           *)
(*   src/src/main/syncfs/syncfs.ts  (watcher, IPC handlers, pull, scan)    *)
(*   src/src/main/syncfs/s3.ts      (S3Service: head/get/put/delete)       *)
(*                                                                         *)
(* Paths are sequences of segments: the watched root is UserFilesDir, a    *)
(* renderer path starts with the segment "/", an S3 key is the sequence of *)
(* segments below the root.  Dates are millisecond integers; the           *)
(* x-original-mtime metadata is the ISO string of such a date, modelled as *)
(* the pair <<seconds, milliseconds>> it spells out.  Local and store      *)
(* clocks are the same clock `now`.                                        *)
(*                                                                         *)
(* Every async function is a task record whose pc is the await it is       *)
(* suspended on; one action is the code between two awaits.  A remote      *)
(* request takes effect at the store when the step of its await is taken,  *)
(* so requests of different tasks reach the store in any order.            *)
(***************************************************************************)
EXTENDS Integers, Sequences, FiniteSets, Bags, TLC

VARIABLES
  now,            \* wall clock (ms)
  files,          \* local files: full path -> [exists, mtime, content, origin]
  dirs,           \* existing local directories (full paths)
  remote,         \* bucket: key -> [exists, lastModified, meta, body]
  bucket,         \* the bucket itself: [exists, creates] (CreateBucket requests served)
  window,         \* mainWindow exists and is not destroyed
  ollama,         \* the OllamaChat instance and the last request it made
  llm,            \* model-manager.ts: currentModelConfig, currentDownload, models directory
  reachable,      \* the store answers requests
  locked,         \* local files held open exclusively by another program
  watcher,        \* syncfs.ts `watcher`: TRUE while it is not null
  pending,        \* chokidar events detected and not yet emitted
  tasks,          \* suspended async functions (a bag of task records)
  reply,          \* the async function that finished in the last step
  fileSystemData, \* syncfs.ts `fileSystemData`: the published snapshot
  delivered,      \* last value sent on 'file-system-updated'
  quiet,          \* history: forceSync passes since the last outside change
  lastOp          \* history: the handler that returned, or the request that failed, since the last outside change

vars == <<now, files, dirs, remote, bucket, window, ollama, llm, reachable, locked, watcher, pending,
          tasks, reply, fileSystemData, delivered, quiet, lastOp>>

localVars == <<files, dirs>>
envVars   == <<reachable, locked, bucket, window, ollama, llm>>
treeVars  == <<fileSystemData, delivered>>

-----------------------------------------------------------------------------
(* Bounds *)

MaxTime == 3
MaxContent == 2
MaxTasks == 3
MaxPulls == 1

-----------------------------------------------------------------------------
(* Paths *)

UserFilesDir == <<"U">>
MsPerSec == 1000

RelDirs  == { <<>>, <<"d">>, <<"d", "s">> }
RelFiles == { <<"f">>, <<"d", "f">>, <<"d", "s", "f">>, <<"d", ".h">> }
Keys     == RelFiles
\* ListObjectsV2 returns keys in lexicographic order
KeyOrder == << <<"d", ".h">>, <<"d", "f">>, <<"d", "s", "f">>, <<"f">> >>

Join(base, rel) == base \o rel
AllDirs  == { Join(UserFilesDir, r) : r \in RelDirs }
AllFiles == { Join(UserFilesDir, r) : r \in RelFiles }
SourceFiles == { <<"X", "f">> }

Contents == 1..MaxContent
Times == 0..MaxTime

\* relativePath.startsWith('/') ? relativePath.substring(1) : relativePath
StripSlash(p) == IF Len(p) > 0 /\ Head(p) = "/" THEN Tail(p) ELSE p

\* path.relative(baseDir, filePath).replace(/\\/g, '/')
Relative(base, full) == SubSeq(full, Len(base) + 1, Len(full))

Dirname(p)  == SubSeq(p, 1, Len(p) - 1)
Basename(p) == p[Len(p)]

IsPrefix(a, b) == Len(a) <= Len(b) /\ SubSeq(b, 1, Len(a)) = a
Under(dir, p)  == Len(dir) < Len(p) /\ IsPrefix(dir, p)

\* Date.prototype.toISOString and new Date(isoString)
ToISOString(t) == << t \div MsPerSec, t % MsPerSec >>
ParseDate(s)   == s[1] * MsPerSec + s[2]

-----------------------------------------------------------------------------
(* Values *)

NoFile == [exists |-> FALSE, mtime |-> 0, content |-> 0, origin |-> "none"]
NoObj  == [exists |-> FALSE, lastModified |-> 0, meta |-> <<>>, body |-> 0]
NoHead == [found |-> FALSE, LastModified |-> 0, hasX |-> FALSE, XOriginalMtime |-> 0]

\* what an IPC handler hands back to the renderer: nothing yet, {success:
\* true} or {success: false, error: '...'}
NoReturn == [returned |-> FALSE, success |-> FALSE, error |-> FALSE]
Success  == [returned |-> TRUE, success |-> TRUE, error |-> FALSE]
Failure  == [returned |-> TRUE, success |-> FALSE, error |-> TRUE]

NoTask == [kind |-> "none", pc |-> "done", path |-> <<>>, key |-> <<>>,
           mtime |-> 0, meta |-> NoHead, body |-> 0, list |-> <<>>, i |-> 0,
           res |-> "none", issued |-> <<>>, work |-> <<>>, src |-> "none",
           mark |-> "none", dst |-> <<>>, n |-> 0, ret |-> NoReturn]

NoOp == [op |-> "none", path |-> <<>>, dst |-> <<>>, src |-> "none"]

\* model names, prompts and system prompts ("": no system prompt is given)
ModelNames    == { "llama3", "m1", "m2" }
Prompts       == { "p" }
SystemPrompts == { "", "s" }

\* no request has been passed to Ollama.chat
NoRequest == [sent |-> FALSE, via |-> "none", model |-> "none", messages |-> "",
              stream |-> FALSE, system |-> ""]

\* new OllamaChat(modelName): the instance after its constructor.  Field
\* request is the last request passed to Ollama.chat; given and chosen are
\* history: the constructor's model and that of the last setModel
NewOllamaChat(modelName) ==
  [modelName |-> modelName, request |-> NoRequest, given |-> modelName, chosen |-> "none"]

\* export default new OllamaChat(): modelName defaults to 'llama3'
DefaultChat == NewOllamaChat("llama3")

\* ids of AVAILABLE_MODELS; the first one is getDefaultModel()
ModelIds == { "qwen3-4b", "qwen3-8b" }

\* model-manager.ts at load: the default model is current, no download is
\* running and the models directory is empty.  dir maps each file name
\* <<id, extension>> to the model whose data it holds, or "none"
DefaultLlm ==
  [currentModelConfig |-> "qwen3-4b", currentDownload |-> "null",
   dir |-> [f \in ModelIds \X {"gguf", "download"} |-> "none"]]

\* history record of a handler that has just returned success, or of a
\* remote request that has just failed
Returned(op, p, d, who) == [op |-> op, path |-> p, dst |-> d, src |-> who]

NewTask(kind, pc, path) ==
  [NoTask EXCEPT !.kind = kind, !.pc = pc, !.path = path]

\* at most MaxTasks async functions are in flight
Room(ts, n) == BagCardinality(ts) + n <= MaxTasks

Running      == BagToSet(tasks)
Without(t)   == tasks (-) SetToBag({t})
Start(ts, u) == ts (+) SetToBag({u})
Replace(t, u) == Start(Without(t), u)

\* an outside event happens at an instant of its own
Advance == now < MaxTime /\ now' = now + 1

-----------------------------------------------------------------------------
(* Local file system and chokidar *)

Ancestors(p) == { d \in AllDirs : IsPrefix(d, p) /\ Len(d) < Len(p) }

\* names chokidar's `ignored` pattern and the scans' startsWith('.') match
DotNames == { ".h" }

\* events chokidar will emit for a write to file p (awaitWriteFinish: an add
\* that has not been emitted yet stays an add); a dotfile is ignored
NotifyWrite(p) ==
  IF ~watcher \/ Basename(p) \in DotNames THEN pending
  ELSE IF files[p].exists /\ [ev |-> "add", path |-> p] \notin pending
       THEN (pending \ {[ev |-> "unlink", path |-> p]}) \cup {[ev |-> "change", path |-> p]}
       ELSE (pending \ {[ev |-> "unlink", path |-> p]}) \cup {[ev |-> "add", path |-> p]}

\* events for the removal of file p: a file whose add is still awaiting write
\* finish disappears silently
NotifyUnlinkIn(pend, p) ==
  IF ~watcher \/ Basename(p) \in DotNames THEN pend
  ELSE IF [ev |-> "add", path |-> p] \in pend
       THEN pend \ {[ev |-> "add", path |-> p], [ev |-> "change", path |-> p]}
       ELSE (pend \ {[ev |-> "change", path |-> p]}) \cup {[ev |-> "unlink", path |-> p]}

NotifyUnlink(p) == NotifyUnlinkIn(pending, p)

\* fs.promises.writeFile(p, content) at time tm
Written(p, c, who, tm) ==
  [files EXCEPT ![p] = [exists |-> TRUE, mtime |-> tm, content |-> c, origin |-> who]]

\* readdir order
EntryOrder == << <<"U", "d">>, <<"U", "d", ".h">>, <<"U", "d", "f">>, <<"U", "d", "s">>,
                 <<"U", "d", "s", "f">>, <<"U", "f">> >>

IsDir(e)  == e \in dirs
IsFile(e) == e \in AllFiles /\ files[e].exists

\* fs.promises.readdir(dirPath, {withFileTypes: true})
Readdir(d) == SelectSeq(EntryOrder, LAMBDA e : Dirname(e) = d /\ (IsDir(e) \/ IsFile(e)))

\* entries scanDirectory and processDirectory visit: dotfiles are skipped
Visible(es) == SelectSeq(es, LAMBDA e : Basename(e) \notin DotNames)

-----------------------------------------------------------------------------
(* S3Service *)

\* S3Service.getObjectMetadata on a reachable store
HeadObject(key) ==
  IF ~remote[key].exists THEN NoHead
  ELSE [found |-> TRUE,
        LastModified |-> remote[key].lastModified,
        hasX |-> remote[key].meta # <<>>,
        XOriginalMtime |-> IF remote[key].meta # <<>> THEN ParseDate(remote[key].meta) ELSE 0]

\* a skip only when the remote copy is strictly newer
SkipUploadLax(meta, localMtime) ==
  meta.found /\ meta.hasX /\ localMtime < meta.XOriginalMtime

\* s3.ts:213-218: the remote copy is same-age-or-newer, skip the upload
SkipUpload(meta, localMtime) ==
  meta.found /\ meta.hasX /\ localMtime <= meta.XOriginalMtime

\* syncfs.ts:407-416: pull decision for a key whose local file exists
PullDownloadsByOrigin(meta, localMtime) ==
  meta.found /\ meta.hasX /\ meta.XOriginalMtime > localMtime

\* a download only when the store's copy was written before the local one
PullDownloadsOlder(meta, localMtime) ==
  meta.found /\ meta.LastModified < localMtime

PullDownloads(meta, localMtime) ==
  meta.found /\ meta.LastModified > localMtime

-----------------------------------------------------------------------------
(* Push: syncFile -> S3Service.uploadFile *)

\* an upload that starts without probing the file for a lock
PushBeginNoProbe(t, p) ==
  IF ~files[p].exists
  THEN [t EXCEPT !.path = p, !.key = StripSlash(Relative(UserFilesDir, p)),
                 !.pc = "locked", !.res = "none", !.meta = NoHead]
  ELSE [t EXCEPT !.path = p, !.key = StripSlash(Relative(UserFilesDir, p)),
                 !.mtime = files[p].mtime, !.src = files[p].origin,
                 !.pc = "head", !.res = "none", !.meta = NoHead]

\* syncFile/uploadFile up to the first await: lock probe, statSync, key
PushBegin(t, p) ==
  IF ~files[p].exists \/ p \in locked
  THEN [t EXCEPT !.path = p, !.key = StripSlash(Relative(UserFilesDir, p)),
                 !.pc = "locked", !.res = "none", !.meta = NoHead]
  ELSE [t EXCEPT !.path = p, !.key = StripSlash(Relative(UserFilesDir, p)),
                 !.mtime = files[p].mtime, !.src = files[p].origin,
                 !.pc = "head", !.res = "none", !.meta = NoHead]

IsPusher(t) == t.kind \in {"push", "pushAll"}

\* loop of processDirectory (syncAllFiles) up to its next await: a directory
\* entry is read, a file entry is handed to syncFile
PushAllAdvance(u) ==
  IF u.work = <<>> THEN [u EXCEPT !.pc = "done"]
  ELSE LET e == Head(u.work)
           rest == Tail(u.work) IN
       IF e \in AllDirs
       THEN [u EXCEPT !.pc = "readdir", !.path = e, !.work = rest]
       ELSE PushBegin([u EXCEPT !.work = rest], e)

\* the upload of one file is over: a single push ends, push-all goes on
PushEnd(t, u) ==
  /\ reply' = [u EXCEPT !.pc = "done"]
  /\ tasks' = IF t.kind = "push" THEN Without(t)
              ELSE LET v == PushAllAdvance(u) IN
                   IF v.pc = "done" THEN Without(t) ELSE Replace(t, v)

\* isFileAccessible returned false: uploadFile resolves false
PushLocked(t) ==
  /\ t \in Running /\ IsPusher(t) /\ t.pc = "locked"
  /\ PushEnd(t, [t EXCEPT !.res = "locked"])
  /\ UNCHANGED <<now, localVars, remote, envVars, watcher, pending, treeVars, quiet, lastOp>>

\* a failed metadata request read as "no such object": the upload goes on
PushHeadConflates(t) ==
  /\ t \in Running /\ IsPusher(t) /\ t.pc = "head"
  /\ LET m == IF reachable THEN HeadObject(t.key) ELSE NoHead IN
     /\ UNCHANGED lastOp
     /\ IF SkipUpload(m, t.mtime)
        THEN PushEnd(t, [t EXCEPT !.meta = m, !.res = "skip"])
        ELSE /\ tasks' = Replace(t, [t EXCEPT !.meta = m, !.pc = "read"])
             /\ reply' = NoTask
  /\ UNCHANGED <<now, localVars, remote, envVars, watcher, pending, treeVars, quiet>>

\* answer of getObjectMetadata, then the comparison of s3.ts:213-220
PushHead(t) ==
  /\ t \in Running /\ IsPusher(t) /\ t.pc = "head"
  /\ IF ~reachable
     THEN /\ PushEnd(t, [t EXCEPT !.res = "error"])
          /\ lastOp' = Returned("uploadFailed", t.path, <<>>, "head")
     ELSE LET m == HeadObject(t.key) IN
          /\ UNCHANGED lastOp
          /\ IF SkipUpload(m, t.mtime)
             THEN PushEnd(t, [t EXCEPT !.meta = m, !.res = "skip"])
             ELSE /\ tasks' = Replace(t, [t EXCEPT !.meta = m, !.pc = "read"])
                  /\ reply' = NoTask
  /\ UNCHANGED <<now, localVars, remote, envVars, watcher, pending, treeVars, quiet>>

\* Body: await fs.promises.readFile(localFilePath)
PushRead(t) ==
  /\ t \in Running /\ IsPusher(t) /\ t.pc = "read"
  /\ IF files[t.path].exists
     THEN /\ tasks' = Replace(t, [t EXCEPT !.body = files[t.path].content, !.pc = "put"])
          /\ reply' = NoTask
     ELSE PushEnd(t, [t EXCEPT !.res = "error"])
  /\ UNCHANGED <<now, localVars, remote, envVars, watcher, pending, treeVars, quiet, lastOp>>

\* PutObjectCommand stamped with the instant of the upload
PushPutStampNow(t) ==
  /\ t \in Running /\ IsPusher(t) /\ t.pc = "put"
  /\ IF reachable
     THEN /\ remote' = [remote EXCEPT ![t.key] =
                 [exists |-> TRUE, lastModified |-> now,
                  meta |-> ToISOString(now), body |-> t.body]]
          /\ PushEnd(t, [t EXCEPT !.res = "uploaded"])
          /\ UNCHANGED lastOp
     ELSE /\ PushEnd(t, [t EXCEPT !.res = "error"])
          /\ lastOp' = Returned("uploadFailed", t.path, <<>>, "put")
          /\ UNCHANGED remote
  /\ UNCHANGED <<now, localVars, envVars, watcher, pending, treeVars, quiet>>

\* a PutObjectCommand that waits until no other upload is in flight
PushPutSerial(t) ==
  /\ t \in Running /\ IsPusher(t) /\ t.pc = "put"
  /\ \A u \in Running : IsPusher(u) => u = t
  /\ IF reachable
     THEN /\ remote' = [remote EXCEPT ![t.key] =
                 [exists |-> TRUE, lastModified |-> now,
                  meta |-> ToISOString(t.mtime), body |-> t.body]]
          /\ PushEnd(t, [t EXCEPT !.res = "uploaded"])
          /\ UNCHANGED lastOp
     ELSE /\ PushEnd(t, [t EXCEPT !.res = "error"])
          /\ lastOp' = Returned("uploadFailed", t.path, <<>>, "put")
          /\ UNCHANGED remote
  /\ UNCHANGED <<now, localVars, envVars, watcher, pending, treeVars, quiet>>

\* PutObjectCommand with Metadata x-original-mtime = localMtime.toISOString()
PushPut(t) ==
  /\ t \in Running /\ IsPusher(t) /\ t.pc = "put"
  /\ IF reachable
     THEN /\ remote' = [remote EXCEPT ![t.key] =
                 [exists |-> TRUE, lastModified |-> now,
                  meta |-> ToISOString(t.mtime), body |-> t.body]]
          /\ PushEnd(t, [t EXCEPT !.res = "uploaded"])
          /\ UNCHANGED lastOp
     ELSE /\ PushEnd(t, [t EXCEPT !.res = "error"])
          /\ lastOp' = Returned("uploadFailed", t.path, <<>>, "put")
          /\ UNCHANGED remote
  /\ UNCHANGED <<now, localVars, envVars, watcher, pending, treeVars, quiet>>

\* answer of readdir in processDirectory; a failure ends syncAllFiles
PushAllReaddir(t) ==
  /\ t \in Running /\ t.kind = "pushAll" /\ t.pc = "readdir"
  /\ LET v == IF t.path \in dirs
              THEN PushAllAdvance([t EXCEPT !.work = Visible(Readdir(t.path)) \o t.work])
              ELSE [t EXCEPT !.pc = "done", !.res = "error"] IN
     /\ tasks' = IF v.pc = "done" THEN Without(t) ELSE Replace(t, v)
     /\ reply' = IF v.pc = "done" THEN v ELSE NoTask
  /\ UNCHANGED <<now, localVars, remote, envVars, watcher, pending, treeVars, quiet, lastOp>>

-----------------------------------------------------------------------------
(* Remote delete: deleteFile -> S3Service.deleteFile *)

\* a DeleteObjectCommand that is sent again after a failure
RemoteDeleteRetry(t) ==
  /\ t \in Running /\ t.kind = "rdel" /\ t.pc = "del"
  /\ remote' = IF reachable THEN [remote EXCEPT ![t.key] = NoObj] ELSE remote
  /\ tasks' = IF reachable THEN Without(t) ELSE tasks
  /\ reply' = [t EXCEPT !.pc = "done", !.res = IF reachable THEN "deleted" ELSE "error"]
  /\ lastOp' = IF reachable THEN lastOp ELSE Returned("deleteFailed", t.path, <<>>, "delete")
  /\ UNCHANGED <<now, localVars, envVars, watcher, pending, treeVars, quiet>>

\* DeleteObjectCommand; a failure is logged and deleteFile resolves false
RemoteDelete(t) ==
  /\ t \in Running /\ t.kind = "rdel" /\ t.pc = "del"
  /\ remote' = IF reachable THEN [remote EXCEPT ![t.key] = NoObj] ELSE remote
  /\ tasks' = Without(t)
  /\ reply' = [t EXCEPT !.pc = "done", !.res = IF reachable THEN "deleted" ELSE "error"]
  /\ lastOp' = IF reachable THEN lastOp ELSE Returned("deleteFailed", t.path, <<>>, "delete")
  /\ UNCHANGED <<now, localVars, envVars, watcher, pending, treeVars, quiet>>

-----------------------------------------------------------------------------
(* Pull: force-sync-from-s3 -> pullAllFilesFromS3 -> S3Service.downloadFile *)

MkdirP(ds, d) == ds \cup { x \in AllDirs : IsPrefix(x, d) }

\* S3Service.listFiles: the listed keys; a failed listing is logged and read
\* as an empty bucket
ListFiles ==
  IF reachable THEN SelectSeq(KeyOrder, LAMBDA k : remote[k].exists) ELSE <<>>

\* a loop head that asks for the object's metadata whether or not the
\* local file exists
PullIterAlwaysHead(u, i) ==
  IF i > Len(u.list)
  THEN [u EXCEPT !.i = i, !.pc = "done", !.res = "ok", !.ret = Success]
  ELSE LET k == u.list[i]
           p == Join(UserFilesDir, k) IN
       [u EXCEPT !.i = i, !.key = k, !.path = p,
                 !.mtime = IF files'[p].exists THEN files'[p].mtime ELSE 0,
                 !.meta = NoHead, !.pc = "head", !.res = "none"]

\* loop head of pullAllFilesFromS3 for the i-th listed key, up to its first
\* await: existsSync, then either downloadFile's mkdir or statSync
PullIter(u, i) ==
  IF i > Len(u.list)
  THEN [u EXCEPT !.i = i, !.pc = "done", !.res = "ok", !.ret = Success]
  ELSE LET k == u.list[i]
           p == Join(UserFilesDir, k) IN
       IF ~files'[p].exists
       THEN [u EXCEPT !.i = i, !.key = k, !.path = p, !.mtime = 0,
                      !.meta = NoHead, !.pc = "get", !.res = "missing"]
       ELSE [u EXCEPT !.i = i, !.key = k, !.path = p, !.mtime = files'[p].mtime,
                      !.meta = NoHead, !.pc = "head", !.res = "none"]

\* directories downloadFile creates before its GetObject request
PullDirs(u) ==
  IF u.pc = "get" /\ u.res = "missing" THEN MkdirP(dirs, Dirname(u.path)) ELSE dirs

\* chokidar addDir events for the directories of ds that are new
AddDirEvents(pend, ds) ==
  IF watcher THEN pend \cup { [ev |-> "addDir", path |-> x] : x \in ds \ dirs }
  ELSE pend

\* the pull moves on to u; when it is over (u.ret) the force-sync-from-s3
\* handler returns {success: true}
PullGoto(t, u) ==
  /\ tasks' = IF u.pc = "done" THEN Without(t) ELSE Replace(t, u)
  /\ quiet' = IF u.pc = "done" /\ u.mark = "first" /\ quiet = "run1"
              THEN "after1" ELSE quiet
  /\ UNCHANGED lastOp

\* number of pull passes in flight
PullsRunning ==
  LET ps == { t \in Running : t.kind = "pull" } IN
  IF ps = {} THEN 0 ELSE BagCardinality([t \in ps |-> tasks[t]])

\* ipcMain.handle('force-sync-from-s3')
ForceSync ==
  /\ Room(tasks, 1)
  /\ PullsRunning < MaxPulls
  /\ LET first == quiet = "no" /\ tasks = EmptyBag /\ pending = {}
         t == [NewTask("pull", "list", <<>>) EXCEPT
                 !.mark = IF first THEN "first"
                          ELSE IF quiet = "after1" /\ tasks = EmptyBag /\ pending = {}
                               THEN "second" ELSE "none"] IN
     /\ tasks' = Start(tasks, t)
     /\ quiet' = IF first THEN "run1" ELSE IF quiet = "no" THEN "conc" ELSE quiet
  /\ UNCHANGED <<now, localVars, remote, envVars, watcher, pending, treeVars, lastOp>> /\ reply' = NoTask

\* answer of listFiles, then the first loop head
PullList(t) ==
  /\ t \in Running /\ t.kind = "pull" /\ t.pc = "list"
  /\ UNCHANGED files
  /\ LET u == PullIter([t EXCEPT !.list = ListFiles], 1) IN
     /\ PullGoto(t, u)
     /\ dirs' = PullDirs(u)
     /\ reply' = IF u.pc = "done" THEN u ELSE NoTask
  /\ pending' = AddDirEvents(pending, dirs')
  /\ UNCHANGED <<now, remote, envVars, watcher, treeVars>>

\* answer of getObjectMetadata, then the comparison of syncfs.ts:407-416
PullHead(t) ==
  /\ t \in Running /\ t.kind = "pull" /\ t.pc = "head"
  /\ UNCHANGED files
  /\ IF ~reachable
     THEN LET u == PullIter(t, t.i + 1) IN
          /\ PullGoto(t, u)
          /\ dirs' = PullDirs(u)
          /\ reply' = [t EXCEPT !.pc = "done", !.res = "error", !.ret = u.ret]
     ELSE LET m == HeadObject(t.key) IN
          IF PullDownloads(m, t.mtime)
          THEN /\ PullGoto(t, [t EXCEPT !.meta = m, !.pc = "get", !.res = "newer"])
               /\ UNCHANGED dirs /\ reply' = NoTask
          ELSE LET u == PullIter(t, t.i + 1) IN
               /\ PullGoto(t, u)
               /\ dirs' = PullDirs(u)
               /\ reply' = [t EXCEPT !.meta = m, !.pc = "done", !.res = "skip", !.ret = u.ret]
  /\ pending' = AddDirEvents(pending, dirs')
  /\ UNCHANGED <<now, remote, envVars, watcher, treeVars>>

\* answer of GetObjectCommand; a failure makes downloadFile resolve false
PullGet(t) ==
  /\ t \in Running /\ t.kind = "pull" /\ t.pc = "get"
  /\ UNCHANGED files
  /\ IF reachable /\ remote[t.key].exists
     THEN /\ PullGoto(t, [t EXCEPT !.body = remote[t.key].body, !.pc = "write"])
          /\ UNCHANGED dirs /\ reply' = NoTask
     ELSE LET u == PullIter(t, t.i + 1) IN
          /\ PullGoto(t, u)
          /\ dirs' = PullDirs(u)
          /\ reply' = [t EXCEPT !.pc = "done", !.res = "error", !.ret = u.ret]
  /\ pending' = AddDirEvents(pending, dirs')
  /\ UNCHANGED <<now, remote, envVars, watcher, treeVars>>

\* a write that happens before the body has been read
PullWriteEarly(t) ==
  /\ t \in Running /\ t.kind = "pull" /\ t.pc = "write"
  /\ LET ok == Dirname(t.path) \in dirs IN
     /\ files' = IF ok THEN Written(t.path, 0, "download", now) ELSE files
     /\ LET u == PullIter(t, t.i + 1) IN
        /\ reply' = [t EXCEPT !.pc = "done", !.res = IF ok THEN "downloaded" ELSE "error",
                               !.ret = u.ret]
        /\ PullGoto(t, u)
        /\ dirs' = PullDirs(u)
        /\ pending' = AddDirEvents(IF ok THEN NotifyWrite(t.path) ELSE pending, dirs')
  /\ UNCHANGED <<now, remote, envVars, watcher, treeVars>>

\* fs.promises.writeFile(localFilePath, body), then the next loop head
PullWrite(t) ==
  /\ t \in Running /\ t.kind = "pull" /\ t.pc = "write"
  /\ LET ok == Dirname(t.path) \in dirs IN
     /\ files' = IF ok THEN Written(t.path, t.body, "download", now) ELSE files
     /\ LET u == PullIter(t, t.i + 1) IN
        /\ reply' = [t EXCEPT !.pc = "done", !.res = IF ok THEN "downloaded" ELSE "error",
                               !.ret = u.ret]
        /\ PullGoto(t, u)
        /\ dirs' = PullDirs(u)
        /\ pending' = AddDirEvents(IF ok THEN NotifyWrite(t.path) ELSE pending, dirs')
  /\ UNCHANGED <<now, remote, envVars, watcher, treeVars>>

-----------------------------------------------------------------------------
(* Tree snapshot: updateFileSystemData -> scanDirectory *)

\* Buffer.from(entryRelativePath).toString('base64')
EntryId(rel) == <<"base64">> \o rel

\* the node scanDirectory pushes for entry e (children hang below it by path)
Node(e) ==
  LET rel == Join(<<"/">>, Relative(UserFilesDir, e)) IN
  [id |-> EntryId(rel), name |-> Basename(e),
   type |-> IF IsDir(e) THEN "folder" ELSE "file",
   path |-> rel,
   modifiedAt |-> IF IsDir(e) THEN 0 ELSE files[e].mtime,
   isLeaf |-> ~IsDir(e)]

\* one await of scanDirectory: stat of the next entry e, and for a directory
\* the readdir of its children.  An entry that vanished makes the stat throw:
\* the scanDirectory call of its parent directory returns []
ScanStep(t) ==
  LET e    == Head(t.work)
      rest == Tail(t.work) IN
  IF IsDir(e)
  THEN [t EXCEPT !.list = Append(t.list, Node(e)),
                 !.work = Visible(Readdir(e)) \o rest]
  ELSE IF IsFile(e)
  THEN [t EXCEPT !.list = Append(t.list, Node(e)), !.work = rest]
  ELSE LET relDir == Join(<<"/">>, Relative(UserFilesDir, Dirname(e))) IN
       [t EXCEPT !.list = SelectSeq(t.list, LAMBDA n : ~Under(relDir, n.path)),
                 !.work = SelectSeq(rest, LAMBDA x : ~Under(Dirname(e), x))]

\* updateFileSystemData up to its first await: readdir of the root is issued
RefreshBegin ==
  [NewTask("refresh", "scan", UserFilesDir) EXCEPT
     !.work = Visible(Readdir(UserFilesDir))]

\* fileSystemData = await scanDirectory(...); webContents.send(...)
RefreshPublishPartial(t) ==
  LET u == IF t.work = <<>> THEN t ELSE ScanStep(t) IN
  /\ fileSystemData' = u.list
  /\ delivered' = IF window THEN u.list ELSE delivered
  /\ tasks' = IF u.work = <<>> THEN Without(t) ELSE Replace(t, u)

\* the scan's result is stored and nothing is sent
RefreshPublishSilent(t) ==
  LET u == IF t.work = <<>> THEN t ELSE ScanStep(t) IN
  IF u.work = <<>>
  THEN /\ fileSystemData' = u.list
       /\ UNCHANGED delivered
       /\ tasks' = Without(t)
  ELSE /\ tasks' = Replace(t, u)
       /\ UNCHANGED treeVars

\* the scan's result is stored, and sent while the window is there
RefreshPublish(t) ==
  LET u == IF t.work = <<>> THEN t ELSE ScanStep(t) IN
  IF u.work = <<>>
  THEN /\ fileSystemData' = u.list
       /\ delivered' = IF window THEN u.list ELSE delivered
       /\ tasks' = Without(t)
  ELSE /\ tasks' = Replace(t, u)
       /\ UNCHANGED treeVars

\* a continuation of scanDirectory; the one that ends the scan publishes
RefreshStep(t) ==
  /\ t \in Running /\ t.kind = "refresh" /\ t.pc = "scan"
  /\ RefreshPublish(t)
  /\ UNCHANGED <<now, localVars, remote, envVars, watcher, pending, quiet, lastOp>> /\ reply' = NoTask

\* ipcMain.handle('get-file-system-data')
GetTree ==
  /\ reply' = [NoTask EXCEPT !.kind = "getTree", !.list = fileSystemData]
  /\ UNCHANGED <<now, localVars, remote, envVars, watcher, pending, tasks, treeVars, quiet, lastOp>>

-----------------------------------------------------------------------------
(* Watcher event handlers (initFileSystemWatcher) *)

\* tasks started by emit('add', p) / emit('change', p)
OnAdd(ts, p) ==
  Start(Start(ts, RefreshBegin), PushBegin(NewTask("push", "head", p), p))

\* tasks started by emit('unlink', p)
OnUnlink(ts, p) ==
  Start(Start(ts, RefreshBegin),
        [NewTask("rdel", "del", p) EXCEPT !.key = StripSlash(Relative(UserFilesDir, p))])

\* tasks started by emit('addDir') / emit('unlinkDir')
OnDir(ts) == Start(ts, RefreshBegin)

\* tasks started by emit('ready'): updateFileSystemData and syncAllFiles
OnReady(ts) ==
  Start(Start(ts, RefreshBegin), NewTask("pushAll", "readdir", UserFilesDir))

\* chokidar emits a detected event
WatcherFire(e) ==
  /\ watcher /\ e \in pending
  /\ pending' = pending \ {e}
  /\ CASE e.ev \in {"add", "change"} -> Room(tasks, 2) /\ tasks' = OnAdd(tasks, e.path)
       [] e.ev = "unlink"            -> Room(tasks, 2) /\ tasks' = OnUnlink(tasks, e.path)
       [] e.ev = "ready"             -> Room(tasks, 2) /\ tasks' = OnReady(tasks)
       [] OTHER                      -> Room(tasks, 1) /\ tasks' = OnDir(tasks)
  /\ UNCHANGED <<now, localVars, remote, envVars, watcher, treeVars, quiet, lastOp>> /\ reply' = NoTask

-----------------------------------------------------------------------------
(* Environment.  Every outside event happens at an instant of its own: *)
(* it advances the clock by one, so MaxTime also bounds their number.    *)

\* time passes
Tick ==
  /\ Advance
  /\ reply' = NoTask
  /\ UNCHANGED <<localVars, remote, envVars, watcher, pending, tasks, treeVars, quiet, lastOp>>

\* the user's editor saves file p inside the watched tree
UserWrite(p, c) ==
  /\ Advance
  /\ Dirname(p) \in dirs
  /\ files' = Written(p, c, "user", now')
  /\ pending' = NotifyWrite(p)
  /\ quiet' = "no"
  /\ lastOp' = NoOp
  /\ reply' = NoTask
  /\ UNCHANGED <<dirs, remote, envVars, watcher, tasks, treeVars>>

\* another client of the bucket writes key k; meta is its x-original-mtime
\* metadata (<<>> when the tool sets none)
ForeignPut(k, meta, c) ==
  /\ Advance
  /\ reachable
  /\ remote' = [remote EXCEPT ![k] =
        [exists |-> TRUE, lastModified |-> now', meta |-> meta, body |-> c]]
  /\ quiet' = "no"
  /\ lastOp' = NoOp
  /\ reply' = NoTask
  /\ UNCHANGED <<localVars, envVars, watcher, pending, tasks, treeVars>>

\* the user closes the window: mainWindow is destroyed for good, the watcher
\* keeps running
WindowClosed ==
  /\ Advance
  /\ window /\ window' = FALSE
  /\ quiet' = "no"
  /\ reply' = NoTask
  /\ UNCHANGED <<localVars, remote, reachable, locked, bucket, ollama, llm, watcher, pending,
                 tasks, treeVars, lastOp>>

\* the user removes file p from the watched tree
UserDelete(p) ==
  /\ Advance
  /\ files[p].exists
  /\ files' = [files EXCEPT ![p] = NoFile]
  /\ pending' = NotifyUnlink(p)
  /\ quiet' = "no"
  /\ lastOp' = NoOp
  /\ reply' = NoTask
  /\ UNCHANGED <<dirs, remote, envVars, watcher, tasks, treeVars>>

\* another program opens file p exclusively / closes it
Lock(p) ==
  /\ Advance
  /\ files[p].exists /\ p \notin locked
  /\ locked' = locked \cup {p}
  /\ quiet' = "no"
  /\ lastOp' = NoOp
  /\ reply' = NoTask
  /\ UNCHANGED <<localVars, remote, reachable, bucket, window, ollama, llm, watcher, pending, tasks, treeVars>>

Unlock(p) ==
  /\ Advance
  /\ p \in locked
  /\ locked' = locked \ {p}
  /\ quiet' = "no"
  /\ lastOp' = NoOp
  /\ reply' = NoTask
  /\ UNCHANGED <<localVars, remote, reachable, bucket, window, ollama, llm, watcher, pending, tasks, treeVars>>

\* the store becomes unreachable / reachable again
NetToggle ==
  /\ Advance
  /\ reachable' = ~reachable
  /\ quiet' = "no"
  /\ reply' = NoTask
  /\ UNCHANGED <<localVars, remote, locked, bucket, window, ollama, llm, watcher, pending, tasks, treeVars, lastOp>>

-----------------------------------------------------------------------------
(* Initial state: initFileSystemWatcher has returned, the tree and the     *)
(* bucket are empty, chokidar has yet to emit 'ready'                      *)

Init ==
  /\ now = 0
  /\ files = [p \in AllFiles |-> NoFile]
  /\ dirs = {UserFilesDir}
  /\ remote = [k \in Keys |-> NoObj]
  /\ bucket = [exists |-> TRUE, creates |-> 0]
  /\ window = TRUE
  /\ llm = DefaultLlm
  /\ ollama = DefaultChat
  /\ reachable = TRUE
  /\ locked = {}
  /\ watcher = TRUE
  /\ pending = {[ev |-> "ready", path |-> UserFilesDir]}
  /\ tasks = EmptyBag
  /\ reply = NoTask
  /\ fileSystemData = <<>>
  /\ delivered = <<>>
  /\ quiet = "no"
  /\ lastOp = NoOp

-----------------------------------------------------------------------------
(* Synchronisation of one file: pushes, pulls, edits on both sides *)

SyncFiles == { <<"U", "f">> }
SyncKeys  == { <<"f">> }
\* the timestamp rules never look at content: one content on each side
LocalContents   == { 1 }
ForeignContents == { MaxContent }
Metas     == { <<>> } \cup { ToISOString(x) : x \in 0..(now + 1) }

\* watcher-driven pushes against a bucket that other clients write too
NextPush ==
  \/ Tick
  \/ \E p \in SyncFiles, c \in LocalContents : UserWrite(p, c)
  \/ \E p \in SyncFiles : UserDelete(p)
  \/ \E k \in SyncKeys, m \in Metas, c \in ForeignContents : ForeignPut(k, m, c)
  \/ \E e \in pending : WatcherFire(e)
  \/ \E t \in Running : PushHead(t)
  \/ \E t \in Running : PushRead(t)
  \/ \E t \in Running : PushPut(t)
  \/ \E t \in Running : PushAllReaddir(t)
  \/ \E t \in Running : RemoteDelete(t)
  \/ \E t \in Running : RefreshStep(t)

SpecPush == Init /\ [][NextPush]_vars

\* the same with forced pull passes
NextSync ==
  \/ Tick
  \/ \E p \in SyncFiles, c \in LocalContents : UserWrite(p, c)
  \/ \E k \in SyncKeys, m \in Metas, c \in ForeignContents : ForeignPut(k, m, c)
  \/ \E e \in pending : WatcherFire(e)
  \/ ForceSync
  \/ \E t \in Running : PushHead(t)
  \/ \E t \in Running : PushRead(t)
  \/ \E t \in Running : PushPut(t)
  \/ \E t \in Running : PushAllReaddir(t)
  \/ \E t \in Running : RefreshStep(t)
  \/ \E t \in Running : PullList(t)
  \/ \E t \in Running : PullHead(t)
  \/ \E t \in Running : PullGet(t)
  \/ \E t \in Running : PullWrite(t)

SpecSync == Init /\ [][NextSync]_vars

-----------------------------------------------------------------------------
(* IPC handlers that change the tree (registerFileSystemHandlers).  A call *)
(* from the renderer is an outside event; paths arrive in renderer form,   *)
(* rooted at "/".                                                          *)

FullPath(uiPath) == Join(UserFilesDir, StripSlash(uiPath))

Exists(p) == IsDir(p) \/ IsFile(p)

\* create-file that also hands the new file to syncFile itself
CreateFileUploads(parentPath, fileName, content) ==
  LET fullPath == Join(FullPath(parentPath), <<fileName>>) IN
  /\ Advance
  /\ fullPath \in AllFiles
  /\ dirs' = MkdirP(dirs, FullPath(parentPath))
  /\ files' = Written(fullPath, content, "create", now')
  /\ pending' = AddDirEvents(NotifyWrite(fullPath), dirs')
  /\ tasks' = Start(tasks, [NewTask("push", "head", fullPath) EXCEPT
                              !.key = StripSlash(Relative(UserFilesDir, fullPath)),
                              !.mtime = now', !.src = "create"])
  /\ reply' = [NewTask("create", "done", fullPath) EXCEPT !.res = "ok", !.ret = Success]
  /\ quiet' = "no"
  /\ lastOp' = NoOp
  /\ UNCHANGED <<remote, envVars, watcher, treeVars>>

\* ipcMain.handle('create-file'): mkdirSync of the parent, then writeFile
CreateFile(parentPath, fileName, content) ==
  LET fullPath == Join(FullPath(parentPath), <<fileName>>) IN
  /\ Advance
  /\ fullPath \in AllFiles
  /\ dirs' = MkdirP(dirs, FullPath(parentPath))
  /\ files' = Written(fullPath, content, "create", now')
  /\ pending' = AddDirEvents(NotifyWrite(fullPath), dirs')
  /\ reply' = [NewTask("create", "done", fullPath) EXCEPT !.res = "ok", !.ret = Success]
  /\ quiet' = "no"
  /\ lastOp' = NoOp
  /\ UNCHANGED <<remote, envVars, watcher, tasks, treeVars>>

\* ipcMain.handle('create-folder'): mkdir(fullPath, {recursive: true})
CreateFolder(parentPath, folderName) ==
  LET fullPath == Join(FullPath(parentPath), <<folderName>>) IN
  /\ Advance
  /\ fullPath \in AllDirs
  /\ dirs' = MkdirP(dirs, fullPath)
  /\ pending' = AddDirEvents(pending, dirs')
  /\ reply' = [NewTask("createFolder", "done", fullPath) EXCEPT !.res = "ok", !.ret = Success]
  /\ quiet' = "no"
  /\ lastOp' = NoOp
  /\ UNCHANGED <<files, remote, envVars, watcher, tasks, treeVars>>

\* the enumeration with keys relative to the deleted folder, its own name
\* left out
RECURSIVE EnumAdvanceBare(_)
EnumAdvanceBare(u) ==
  IF u.work = <<>>
  THEN [u EXCEPT !.i = 1, !.pc = IF u.list = <<>> THEN "rm" ELSE "rdelAll"]
  ELSE LET e    == Head(u.work)
           rest == Tail(u.work) IN
       IF e \in AllDirs
       THEN [u EXCEPT !.pc = "enum", !.dst = e, !.work = rest]
       ELSE EnumAdvanceBare([u EXCEPT !.work = rest,
                           !.list = Append(u.list, Relative(u.path, e))])

\* loop of getAllFilesInDirectory up to its next await: the key of a file
\* entry is pushed (dotfiles included), a directory entry is read; after the
\* last entry the handler goes on to its remote deletes, or to rm if none
RECURSIVE EnumAdvance(_)
EnumAdvance(u) ==
  IF u.work = <<>>
  THEN [u EXCEPT !.i = 1, !.pc = IF u.list = <<>> THEN "rm" ELSE "rdelAll"]
  ELSE LET e    == Head(u.work)
           rest == Tail(u.work) IN
       IF e \in AllDirs
       THEN [u EXCEPT !.pc = "enum", !.dst = e, !.work = rest]
       ELSE EnumAdvance([u EXCEPT !.work = rest,
                           !.list = Append(u.list, Join(u.key, Relative(u.path, e)))])

\* ipcMain.handle('delete-item') up to its first await (fs.promises.stat)
DeleteItem(itemPath) ==
  /\ Advance
  /\ Room(tasks, 1)
  /\ tasks' = Start(tasks, [NewTask("delItem", "stat", FullPath(itemPath)) EXCEPT
                              !.key = StripSlash(itemPath)])
  /\ reply' = NoTask
  /\ quiet' = "no"
  /\ lastOp' = NoOp
  /\ UNCHANGED <<localVars, remote, envVars, watcher, pending, treeVars>>

\* answer of stat with the rejection of a missing path left uncaught
DelStatUncaught(t) ==
  /\ t \in Running /\ t.kind = "delItem" /\ t.pc = "stat"
  /\ IF ~Exists(t.path)
     THEN /\ tasks' = Without(t)
          /\ reply' = [t EXCEPT !.pc = "done", !.res = "fail"]
     ELSE /\ tasks' = Replace(t,
                 IF IsDir(t.path)
                 THEN [t EXCEPT !.pc = "enum", !.dst = t.path,
                         !.n = Cardinality({ p \in AllFiles : IsFile(p) /\ Under(t.path, p) })]
                 ELSE [t EXCEPT !.pc = "rdel"])
          /\ reply' = NoTask
  /\ UNCHANGED <<now, localVars, remote, envVars, watcher, pending, treeVars, quiet, lastOp>>

\* answer of stat: a missing path throws ({success: false}); for a directory
\* the readdir of getAllFilesInDirectory is issued, a file goes straight to
\* its remote delete
DelStat(t) ==
  /\ t \in Running /\ t.kind = "delItem" /\ t.pc = "stat"
  /\ IF ~Exists(t.path)
     THEN /\ tasks' = Without(t)
          /\ reply' = [t EXCEPT !.pc = "done", !.res = "fail", !.ret = Failure]
     ELSE /\ tasks' = Replace(t,
                 IF IsDir(t.path)
                 THEN [t EXCEPT !.pc = "enum", !.dst = t.path,
                         !.n = Cardinality({ p \in AllFiles : IsFile(p) /\ Under(t.path, p) })]
                 ELSE [t EXCEPT !.pc = "rdel"])
          /\ reply' = NoTask
  /\ UNCHANGED <<now, localVars, remote, envVars, watcher, pending, treeVars, quiet, lastOp>>

\* folder: answer of readdir for directory t.dst; a failure is logged and
\* that directory contributes no key
DelEnum(t) ==
  /\ t \in Running /\ t.kind = "delItem" /\ t.pc = "enum"
  /\ tasks' = Replace(t, EnumAdvance(IF t.dst \in dirs
                                     THEN [t EXCEPT !.work = Readdir(t.dst) \o t.work]
                                     ELSE t))
  /\ reply' = NoTask
  /\ UNCHANGED <<now, localVars, remote, envVars, watcher, pending, treeVars, quiet, lastOp>>

\* folder: the loop over allFiles ends after its first request
DelRemoteNextOnce(t) ==
  /\ t \in Running /\ t.kind = "delItem" /\ t.pc = "rdelAll"
  /\ remote' = IF reachable THEN [remote EXCEPT ![t.list[t.i]] = NoObj] ELSE remote
  /\ tasks' = Replace(t, [t EXCEPT !.issued = Append(t.issued, t.list[t.i]),
                                   !.i = t.i + 1, !.pc = "rm"])
  /\ reply' = NoTask
  /\ UNCHANGED <<now, localVars, envVars, watcher, pending, treeVars, quiet, lastOp>>

\* folder: answer of S3Service.deleteFile for the i-th enumerated key; the
\* outcome is only logged
DelRemoteNext(t) ==
  /\ t \in Running /\ t.kind = "delItem" /\ t.pc = "rdelAll"
  /\ remote' = IF reachable THEN [remote EXCEPT ![t.list[t.i]] = NoObj] ELSE remote
  /\ tasks' = Replace(t, [t EXCEPT !.issued = Append(t.issued, t.list[t.i]),
                                   !.i = t.i + 1,
                                   !.pc = IF t.i = Len(t.list) THEN "rm" ELSE "rdelAll"])
  /\ reply' = NoTask
  /\ UNCHANGED <<now, localVars, envVars, watcher, pending, treeVars, quiet, lastOp>>

\* chokidar events for removed files fs and removed directories ds; dotfiles
\* are ignored by the watcher
NotifyRemoved(fs, ds) ==
  IF ~watcher THEN pending
  ELSE LET silent == { p \in fs : \/ [ev |-> "add", path |-> p] \in pending
                                  \/ Basename(p) \in DotNames } IN
       (pending \ { e \in pending : e.path \in fs /\ e.ev \in {"add", "change"} })
         \cup { [ev |-> "unlink", path |-> p] : p \in fs \ silent }
         \cup { [ev |-> "unlinkDir", path |-> d] : d \in ds }

\* folder: fs.promises.rm(fullPath, {recursive: true, force: true})
DelRm(t) ==
  /\ t \in Running /\ t.kind = "delItem" /\ t.pc = "rm"
  /\ LET fs == { p \in AllFiles : IsFile(p) /\ Under(t.path, p) }
         ds == { d \in dirs : IsPrefix(t.path, d) } IN
     /\ files' = [p \in AllFiles |-> IF p \in fs THEN NoFile ELSE files[p]]
     /\ dirs' = dirs \ ds
     /\ pending' = NotifyRemoved(fs, ds)
     /\ locked' = locked \ fs
  /\ tasks' = Without(t)
  /\ reply' = [t EXCEPT !.pc = "done", !.res = "ok", !.ret = Success]
  /\ lastOp' = Returned("deleted", t.path, <<>>, "folder")
  /\ UNCHANGED <<now, remote, reachable, bucket, window, ollama, llm, watcher, treeVars, quiet>>

\* file: a failed DeleteObject rejects and ends the handler
DelRemoteRejects(t) ==
  /\ t \in Running /\ t.kind = "delItem" /\ t.pc = "rdel"
  /\ remote' = IF reachable THEN [remote EXCEPT ![t.key] = NoObj] ELSE remote
  /\ tasks' = IF reachable THEN Replace(t, [t EXCEPT !.issued = <<t.key>>, !.pc = "unlink"])
              ELSE Without(t)
  /\ reply' = IF reachable THEN NoTask
              ELSE [t EXCEPT !.pc = "done", !.res = "fail", !.ret = Failure]
  /\ UNCHANGED <<now, localVars, envVars, watcher, pending, treeVars, quiet, lastOp>>

\* file: answer of S3Service.deleteFile(normalizedPath)
DelRemote(t) ==
  /\ t \in Running /\ t.kind = "delItem" /\ t.pc = "rdel"
  /\ remote' = IF reachable THEN [remote EXCEPT ![t.key] = NoObj] ELSE remote
  /\ tasks' = Replace(t, [t EXCEPT !.issued = <<t.key>>, !.pc = "unlink"])
  /\ reply' = NoTask
  /\ UNCHANGED <<now, localVars, envVars, watcher, pending, treeVars, quiet, lastOp>>

\* file: fs.promises.unlink(fullPath); a file already gone throws
DelUnlink(t) ==
  /\ t \in Running /\ t.kind = "delItem" /\ t.pc = "unlink"
  /\ IF IsFile(t.path)
     THEN /\ files' = [files EXCEPT ![t.path] = NoFile]
          /\ pending' = NotifyUnlink(t.path)
          /\ locked' = locked \ {t.path}
          /\ reply' = [t EXCEPT !.pc = "done", !.res = "ok", !.ret = Success]
          /\ lastOp' = Returned("deleted", t.path, <<>>, files[t.path].origin)
     ELSE /\ UNCHANGED <<files, pending, locked, lastOp>>
          /\ reply' = [t EXCEPT !.pc = "done", !.res = "fail", !.ret = Failure]
  /\ tasks' = Without(t)
  /\ UNCHANGED <<now, dirs, remote, reachable, bucket, window, ollama, llm, watcher, treeVars, quiet>>

\* content of the files outside the watched tree that can be imported
SourceContent(sourcePath) == MaxContent

\* ipcMain.handle('import-file') up to the await of copyFile: source check,
\* mkdir of the target directory
ImportFile(sourcePath, targetDirectory) ==
  LET targetPath == Join(FullPath(targetDirectory), <<Basename(sourcePath)>>) IN
  /\ Advance
  /\ Room(tasks, 1)
  /\ targetPath \in AllFiles
  /\ IF sourcePath \in SourceFiles
     THEN /\ dirs' = MkdirP(dirs, FullPath(targetDirectory))
          /\ pending' = AddDirEvents(pending, dirs')
          /\ tasks' = Start(tasks, [NewTask("import", "copy", targetPath) EXCEPT
                                      !.body = SourceContent(sourcePath)])
          /\ reply' = NoTask
     ELSE /\ UNCHANGED <<dirs, pending, tasks>>
          /\ reply' = [NewTask("import", "done", targetPath) EXCEPT !.res = "fail", !.ret = Failure]
  /\ quiet' = "no"
  /\ lastOp' = NoOp
  /\ UNCHANGED <<files, remote, envVars, watcher, treeVars>>

\* ipcMain.handle('import-file-from-buffer') up to the await of writeFile
ImportFileFromBuffer(fileName, buffer, targetDirectory) ==
  LET targetPath == Join(FullPath(targetDirectory), <<fileName>>) IN
  /\ Advance
  /\ Room(tasks, 1)
  /\ targetPath \in AllFiles
  /\ dirs' = MkdirP(dirs, FullPath(targetDirectory))
  /\ pending' = AddDirEvents(pending, dirs')
  /\ tasks' = Start(tasks, [NewTask("importBuffer", "copy", targetPath) EXCEPT
                              !.body = buffer])
  /\ reply' = NoTask
  /\ quiet' = "no"
  /\ lastOp' = NoOp
  /\ UNCHANGED <<files, remote, envVars, watcher, treeVars>>

IsImport(t) == t.kind \in {"import", "importBuffer"}

\* copyFile / writeFile that refuses to replace an existing target
ImportCopyExclusive(t) ==
  /\ t \in Running /\ IsImport(t) /\ t.pc = "copy"
  /\ IF Dirname(t.path) \in dirs /\ ~IsFile(t.path)
     THEN /\ files' = Written(t.path, t.body, "import", now)
          /\ pending' = NotifyWrite(t.path)
          /\ tasks' = Replace(t, [t EXCEPT !.pc = "stat"])
          /\ reply' = NoTask
     ELSE /\ UNCHANGED <<files, pending>>
          /\ tasks' = Without(t)
          /\ reply' = [t EXCEPT !.pc = "done", !.res = "fail", !.ret = Failure]
  /\ UNCHANGED <<now, dirs, remote, envVars, watcher, treeVars, quiet, lastOp>>

\* copyFile / writeFile into the target; a missing directory throws
ImportCopy(t) ==
  /\ t \in Running /\ IsImport(t) /\ t.pc = "copy"
  /\ IF Dirname(t.path) \in dirs
     THEN /\ files' = Written(t.path, t.body, "import", now)
          /\ pending' = NotifyWrite(t.path)
          /\ tasks' = Replace(t, [t EXCEPT !.pc = "stat"])
          /\ reply' = NoTask
     ELSE /\ UNCHANGED <<files, pending>>
          /\ tasks' = Without(t)
          /\ reply' = [t EXCEPT !.pc = "done", !.res = "fail", !.ret = Failure]
  /\ UNCHANGED <<now, dirs, remote, envVars, watcher, treeVars, quiet, lastOp>>

\* stat of the target, then {success: true} with no notification
ImportStatSilent(t) ==
  /\ t \in Running /\ IsImport(t) /\ t.pc = "stat"
  /\ tasks' = Without(t)
  /\ reply' = [t EXCEPT !.pc = "done", !.res = IF IsFile(t.path) THEN "ok" ELSE "fail",
                         !.ret = IF IsFile(t.path) THEN Success ELSE Failure]
  /\ lastOp' = IF IsFile(t.path) THEN Returned("imported", t.path, <<>>, "import") ELSE lastOp
  /\ UNCHANGED <<now, localVars, remote, envVars, watcher, pending, treeVars, quiet>>

\* stat of the target, then watcher.emit('add', targetPath) when the watcher
\* exists, then {success: true}
ImportStat(t) ==
  /\ t \in Running /\ IsImport(t) /\ t.pc = "stat"
  /\ IF IsFile(t.path)
     THEN /\ tasks' = IF watcher THEN OnAdd(Without(t), t.path) ELSE Without(t)
          /\ reply' = [t EXCEPT !.pc = "done", !.res = "ok", !.ret = Success]
          /\ lastOp' = Returned("imported", t.path, <<>>, "import")
     ELSE /\ tasks' = Without(t)
          /\ reply' = [t EXCEPT !.pc = "done", !.res = "fail", !.ret = Failure]
          /\ UNCHANGED lastOp
  /\ UNCHANGED <<now, localVars, remote, envVars, watcher, pending, treeVars, quiet>>

\* ipcMain.handle('move-item') up to the await of rename: source check, mkdir
\* of the target directory
MoveItem(sourcePath, targetDirectory) ==
  LET fullSourcePath == FullPath(sourcePath)
      targetPath == Join(FullPath(targetDirectory), <<Basename(fullSourcePath)>>) IN
  /\ Advance
  /\ Room(tasks, 1)
  /\ targetPath \in AllFiles
  /\ IF Exists(fullSourcePath)
     THEN /\ dirs' = MkdirP(dirs, FullPath(targetDirectory))
          /\ pending' = AddDirEvents(pending, dirs')
          /\ tasks' = Start(tasks, [NewTask("move", "rename", fullSourcePath) EXCEPT
                                      !.dst = targetPath])
          /\ reply' = NoTask
     ELSE /\ UNCHANGED <<dirs, pending, tasks>>
          /\ reply' = [NewTask("move", "done", fullSourcePath) EXCEPT !.res = "fail", !.ret = Failure]
  /\ quiet' = "no"
  /\ lastOp' = NoOp
  /\ UNCHANGED <<files, remote, envVars, watcher, treeVars>>

\* fs.promises.rename(fullSourcePath, targetPath): the file keeps its mtime
\* and replaces a file of the same name; chokidar sees an unlink and a write
MoveRename(t) ==
  /\ t \in Running /\ t.kind = "move" /\ t.pc = "rename"
  /\ IF IsFile(t.path) /\ Dirname(t.dst) \in dirs
     THEN /\ files' = IF t.dst = t.path THEN files
                      ELSE [files EXCEPT ![t.dst] = files[t.path], ![t.path] = NoFile]
          /\ pending' = IF t.dst = t.path THEN pending
                        ELSE NotifyUnlinkIn(NotifyWrite(t.dst), t.path)
          /\ locked' = IF t.dst = t.path THEN locked ELSE locked \ {t.path}
          /\ tasks' = Replace(t, [t EXCEPT !.pc = "stat"])
          /\ reply' = NoTask
     ELSE /\ UNCHANGED <<files, pending, locked>>
          /\ tasks' = Without(t)
          /\ reply' = [t EXCEPT !.pc = "done", !.res = "fail", !.ret = Failure]
  /\ UNCHANGED <<now, dirs, remote, reachable, bucket, window, ollama, llm, watcher, treeVars, quiet, lastOp>>

\* stat of the target; for a file, watcher.emit('unlink', fullSourcePath) and
\* watcher.emit('add', targetPath); then {success: true}
MoveStat(t) ==
  /\ t \in Running /\ t.kind = "move" /\ t.pc = "stat"
  /\ IF IsFile(t.dst)
     THEN /\ tasks' = IF watcher THEN OnAdd(OnUnlink(Without(t), t.path), t.dst)
                      ELSE Without(t)
          /\ reply' = [t EXCEPT !.pc = "done", !.res = "ok", !.ret = Success]
          /\ lastOp' = Returned("moved", t.path, t.dst, files[t.dst].origin)
     ELSE /\ tasks' = Without(t)
          /\ reply' = [t EXCEPT !.pc = "done", !.res = "fail", !.ret = Failure]
          /\ UNCHANGED lastOp
  /\ UNCHANGED <<now, localVars, remote, envVars, watcher, pending, treeVars, quiet>>

\* path.isAbsolute(filePath)
IsAbsolute(p) == Len(p) > 0 /\ Head(p) = "/"

\* ipcMain.handle('read-file-content'): an absolute path is read as it is,
\* another one below the user directory; a failed read is caught
ReadFile(filePath) ==
  LET fullPath == IF IsAbsolute(filePath) THEN filePath
                  ELSE Join(UserFilesDir, filePath) IN
  /\ Advance
  /\ reply' = IF IsFile(fullPath)
              THEN [NewTask("read", "done", fullPath) EXCEPT
                      !.res = "ok", !.body = files[fullPath].content, !.ret = Success]
              ELSE [NewTask("read", "done", fullPath) EXCEPT
                      !.res = "fail", !.ret = Failure]
  /\ quiet' = "no"
  /\ lastOp' = NoOp
  /\ UNCHANGED <<localVars, remote, envVars, watcher, pending, tasks, treeVars>>

\* closeFileSystemWatcher: watcher.close(); watcher = null
CloseFileSystemWatcher ==
  /\ Advance
  /\ watcher
  /\ watcher' = FALSE
  /\ pending' = {}
  /\ reply' = NoTask
  /\ quiet' = "no"
  /\ lastOp' = NoOp
  /\ UNCHANGED <<localVars, remote, envVars, tasks, treeVars>>

-----------------------------------------------------------------------------
(* Creating and deleting files and folders *)

UiPath(p)   == Join(<<"/">>, Relative(UserFilesDir, p))
UiDirs      == { UiPath(d) : d \in AllDirs }
UiItems     == { UiPath(p) : p \in AllFiles \cup (AllDirs \ {UserFilesDir}) }
FileNames   == { "f" }

\* one file at the root is created and deleted
NextDelete ==
  \/ \E n \in FileNames, c \in LocalContents : CreateFile(<<"/">>, n, c)
  \/ \E p \in SyncFiles : DeleteItem(UiPath(p))
  \/ \E e \in pending : WatcherFire(e)
  \/ \E t \in Running : PushHead(t)
  \/ \E t \in Running : PushRead(t)
  \/ \E t \in Running : PushPut(t)
  \/ \E t \in Running : PushAllReaddir(t)
  \/ \E t \in Running : RemoteDelete(t)
  \/ \E t \in Running : RefreshStep(t)
  \/ \E t \in Running : DelStat(t)
  \/ \E t \in Running : DelRemote(t)
  \/ \E t \in Running : DelUnlink(t)

SpecDelete == Init /\ [][NextDelete]_vars

\* the program starts on a tree that holds folder d with files at two depths
InitFolder ==
  /\ now = 0
  /\ files = [p \in AllFiles |->
                IF Len(p) > 2 /\ Basename(p) \notin DotNames
                THEN [exists |-> TRUE, mtime |-> 0, content |-> 1, origin |-> "user"]
                ELSE NoFile]
  /\ dirs = AllDirs
  /\ remote = [k \in Keys |-> NoObj]
  /\ bucket = [exists |-> TRUE, creates |-> 0]
  /\ window = TRUE
  /\ llm = DefaultLlm
  /\ ollama = DefaultChat
  /\ reachable = TRUE
  /\ locked = {}
  /\ watcher = TRUE
  /\ pending = {[ev |-> "ready", path |-> UserFilesDir]}
  /\ tasks = EmptyBag
  /\ reply = NoTask
  /\ fileSystemData = <<>>
  /\ delivered = <<>>
  /\ quiet = "no"
  /\ lastOp = NoOp

FolderItems == { <<"/", "d">> }

\* delete requests are made one at a time: the folder's content is changed
\* by nothing else while a request runs
NextFolder ==
  \/ /\ \A t \in Running : t.kind # "delItem"
     /\ \E i \in FolderItems : DeleteItem(i)
  \/ \E e \in pending : WatcherFire(e)
  \/ \E t \in Running : PushHead(t)
  \/ \E t \in Running : PushRead(t)
  \/ \E t \in Running : PushPut(t)
  \/ \E t \in Running : PushAllReaddir(t)
  \/ \E t \in Running : RemoteDelete(t)
  \/ \E t \in Running : RefreshStep(t)
  \/ \E t \in Running : DelStat(t)
  \/ \E t \in Running : DelEnum(t)
  \/ \E t \in Running : DelRemoteNext(t)
  \/ \E t \in Running : DelRm(t)

SpecFolder == InitFolder /\ [][NextFolder]_vars

\* files are imported at the root, from a file and from a buffer
Buffers == { MaxContent }

NextImport ==
  \/ \E src \in SourceFiles : ImportFile(src, <<"/">>)
  \/ \E n \in FileNames, c \in Buffers : ImportFileFromBuffer(n, c, <<"/">>)
  \/ CloseFileSystemWatcher
  \/ \E e \in pending : WatcherFire(e)
  \/ \E t \in Running : PushHead(t)
  \/ \E t \in Running : PushRead(t)
  \/ \E t \in Running : PushPut(t)
  \/ \E t \in Running : PushAllReaddir(t)
  \/ \E t \in Running : RefreshStep(t)
  \/ \E t \in Running : ImportCopy(t)
  \/ \E t \in Running : ImportStat(t)

SpecImport == Init /\ [][NextImport]_vars

\* files named f at the root and in folder d are created and moved
MoveDirs == { <<"/">>, <<"/", "d">> }

\* the application starts at the last instant but one on a tree that holds
\* f and d/f, with different contents: one move request follows
InitMove ==
  /\ now = MaxTime - 1
  /\ files = [p \in AllFiles |->
                IF p = <<"U", "f">>
                THEN [exists |-> TRUE, mtime |-> 0, content |-> 1, origin |-> "user"]
                ELSE IF p = <<"U", "d", "f">>
                THEN [exists |-> TRUE, mtime |-> 0, content |-> MaxContent, origin |-> "user"]
                ELSE NoFile]
  /\ dirs = {UserFilesDir, <<"U", "d">>}
  /\ remote = [k \in Keys |-> NoObj]
  /\ bucket = [exists |-> TRUE, creates |-> 0]
  /\ window = TRUE
  /\ llm = DefaultLlm
  /\ ollama = DefaultChat
  /\ reachable = TRUE
  /\ locked = {}
  /\ watcher = TRUE
  /\ pending = {[ev |-> "ready", path |-> UserFilesDir]}
  /\ tasks = EmptyBag
  /\ reply = NoTask
  /\ fileSystemData = <<>>
  /\ delivered = <<>>
  /\ quiet = "no"
  /\ lastOp = NoOp

NextMove ==
  \/ \E d \in MoveDirs, n \in FileNames, g \in MoveDirs : MoveItem(Join(d, <<n>>), g)
  \/ \E e \in pending : WatcherFire(e)
  \/ \E t \in Running : PushLocked(t)
  \/ \E t \in Running : PushHead(t)
  \/ \E t \in Running : PushRead(t)
  \/ \E t \in Running : PushPut(t)
  \/ \E t \in Running : PushAllReaddir(t)
  \/ \E t \in Running : RemoteDelete(t)
  \/ \E t \in Running : RefreshStep(t)
  \/ \E t \in Running : MoveRename(t)
  \/ \E t \in Running : MoveStat(t)

SpecMove == InitMove /\ [][NextMove]_vars

\* a file and a folder are created at the root and the file is deleted
\* while the tree is read
NextTree ==
  \/ \E n \in FileNames, c \in LocalContents : CreateFile(<<"/">>, n, c)
  \/ CreateFolder(<<"/">>, "d")
  \/ \E p \in SyncFiles : UserDelete(p)
  \/ GetTree
  \/ \E e \in pending : WatcherFire(e)
  \/ \E t \in Running : PushLocked(t)
  \/ \E t \in Running : PushHead(t)
  \/ \E t \in Running : PushRead(t)
  \/ \E t \in Running : PushPut(t)
  \/ \E t \in Running : PushAllReaddir(t)
  \/ \E t \in Running : RemoteDelete(t)
  \/ \E t \in Running : RefreshStep(t)

SpecTree == Init /\ [][NextTree]_vars

\* object d/f is written by another client and pulled
PullKeys == { <<"d", "f">> }

NextPull ==
  \/ \E k \in PullKeys, c \in ForeignContents : ForeignPut(k, <<>>, c)
  \/ \E e \in pending : WatcherFire(e)
  \/ ForceSync
  \/ \E t \in Running : PushHead(t)
  \/ \E t \in Running : PushRead(t)
  \/ \E t \in Running : PushPut(t)
  \/ \E t \in Running : PushAllReaddir(t)
  \/ \E t \in Running : RefreshStep(t)
  \/ \E t \in Running : PullList(t)
  \/ \E t \in Running : PullHead(t)
  \/ \E t \in Running : PullGet(t)
  \/ \E t \in Running : PullWrite(t)

SpecPull == Init /\ [][NextPull]_vars

\* the application runs on a tree and a bucket that agree on file f, the
\* start-up pass over; the store goes away and comes back while f is edited
\* or deleted
InitSynced ==
  /\ now = 0
  /\ files = [p \in AllFiles |->
                IF p \in SyncFiles
                THEN [exists |-> TRUE, mtime |-> 0, content |-> 1, origin |-> "user"]
                ELSE NoFile]
  /\ dirs = {UserFilesDir}
  /\ remote = [k \in Keys |->
                 IF k \in SyncKeys
                 THEN [exists |-> TRUE, lastModified |-> 0,
                       meta |-> ToISOString(0), body |-> 1]
                 ELSE NoObj]
  /\ bucket = [exists |-> TRUE, creates |-> 0]
  /\ window = TRUE
  /\ llm = DefaultLlm
  /\ ollama = DefaultChat
  /\ reachable = TRUE
  /\ locked = {}
  /\ watcher = TRUE
  /\ pending = {}
  /\ tasks = EmptyBag
  /\ reply = NoTask
  /\ fileSystemData = <<>>
  /\ delivered = <<>>
  /\ quiet = "no"
  /\ lastOp = NoOp

NextHeal ==
  \/ NetToggle
  \/ \E p \in SyncFiles, c \in ForeignContents : UserWrite(p, c)
  \/ \E p \in SyncFiles : UserDelete(p)
  \/ \E e \in pending : WatcherFire(e)
  \/ ForceSync
  \/ \E t \in Running : PushHead(t)
  \/ \E t \in Running : PushRead(t)
  \/ \E t \in Running : PushPut(t)
  \/ \E t \in Running : RemoteDelete(t)
  \/ \E t \in Running : RefreshStep(t)
  \/ \E t \in Running : PullList(t)
  \/ \E t \in Running : PullHead(t)
  \/ \E t \in Running : PullGet(t)
  \/ \E t \in Running : PullWrite(t)

SpecHeal == InitSynced /\ [][NextHeal]_vars

\* the renderer's calls on a tree and a bucket that agree on file f, with
\* the watcher closed; the store goes away and comes back
InitSurface ==
  /\ now = 0
  /\ files = [p \in AllFiles |->
                IF p \in SyncFiles
                THEN [exists |-> TRUE, mtime |-> 0, content |-> 1, origin |-> "user"]
                ELSE NoFile]
  /\ dirs = {UserFilesDir}
  /\ remote = [k \in Keys |->
                 IF k \in SyncKeys
                 THEN [exists |-> TRUE, lastModified |-> 0,
                       meta |-> ToISOString(0), body |-> 1]
                 ELSE NoObj]
  /\ bucket = [exists |-> TRUE, creates |-> 0]
  /\ window = TRUE
  /\ llm = DefaultLlm
  /\ ollama = DefaultChat
  /\ reachable \in BOOLEAN
  /\ locked = {}
  /\ watcher = FALSE
  /\ pending = {}
  /\ tasks = EmptyBag
  /\ reply = NoTask
  /\ fileSystemData = <<>>
  /\ delivered = <<>>
  /\ quiet = "no"
  /\ lastOp = NoOp

ReadPaths   == { <<"f">>, <<"/", "f">> }
DeleteItems == { <<"/", "f">>, <<"/", "d">> }

NextSurface ==
  \/ NetToggle
  \/ \E d \in MoveDirs, n \in FileNames, c \in LocalContents : CreateFile(d, n, c)
  \/ \E n \in {"d"} : CreateFolder(<<"/">>, n)
  \/ \E i \in DeleteItems : DeleteItem(i)
  \/ \E src \in SourceFiles : ImportFile(src, <<"/">>)
  \/ \E n \in FileNames, c \in Buffers : ImportFileFromBuffer(n, c, <<"/">>)
  \/ \E d \in MoveDirs, n \in FileNames, g \in MoveDirs : MoveItem(Join(d, <<n>>), g)
  \/ \E p \in ReadPaths : ReadFile(p)
  \/ ForceSync
  \/ \E t \in Running : DelStat(t)
  \/ \E t \in Running : DelEnum(t)
  \/ \E t \in Running : DelRemoteNext(t)
  \/ \E t \in Running : DelRm(t)
  \/ \E t \in Running : DelRemote(t)
  \/ \E t \in Running : DelUnlink(t)
  \/ \E t \in Running : ImportCopy(t)
  \/ \E t \in Running : ImportStat(t)
  \/ \E t \in Running : MoveRename(t)
  \/ \E t \in Running : MoveStat(t)
  \/ \E t \in Running : PullList(t)
  \/ \E t \in Running : PullHead(t)
  \/ \E t \in Running : PullGet(t)
  \/ \E t \in Running : PullWrite(t)

SpecSurface == InitSurface /\ [][NextSurface]_vars

\* the application starts on a tree that holds f and d/f; folder d is
\* deleted while the start-up pass runs
InitBatch ==
  /\ now = 0
  /\ files = [p \in AllFiles |->
                IF p \in {<<"U", "f">>, <<"U", "d", "f">>}
                THEN [exists |-> TRUE, mtime |-> 0, content |-> 1, origin |-> "user"]
                ELSE NoFile]
  /\ dirs = {UserFilesDir, <<"U", "d">>}
  /\ remote = [k \in Keys |-> NoObj]
  /\ bucket = [exists |-> TRUE, creates |-> 0]
  /\ window = TRUE
  /\ llm = DefaultLlm
  /\ ollama = DefaultChat
  /\ reachable = TRUE
  /\ locked = {}
  /\ watcher = TRUE
  /\ pending = {[ev |-> "ready", path |-> UserFilesDir]}
  /\ tasks = EmptyBag
  /\ reply = NoTask
  /\ fileSystemData = <<>>
  /\ delivered = <<>>
  /\ quiet = "no"
  /\ lastOp = NoOp

NextBatch ==
  \/ /\ \A t \in Running : t.kind # "delItem"
     /\ \E i \in FolderItems : DeleteItem(i)
  \/ \E e \in pending : WatcherFire(e)
  \/ \E t \in Running : PushHead(t)
  \/ \E t \in Running : PushRead(t)
  \/ \E t \in Running : PushPut(t)
  \/ \E t \in Running : PushAllReaddir(t)
  \/ \E t \in Running : RemoteDelete(t)
  \/ \E t \in Running : RefreshStep(t)
  \/ \E t \in Running : DelStat(t)
  \/ \E t \in Running : DelEnum(t)
  \/ \E t \in Running : DelRemoteNext(t)
  \/ \E t \in Running : DelRm(t)

SpecBatch == InitBatch /\ [][NextBatch]_vars

\* a file named f is imported at the root again and again, from a file and
\* from a buffer of different contents, one request at a time
NextTwice ==
  \/ /\ \A t \in Running : ~IsImport(t)
     /\ \E src \in SourceFiles : ImportFile(src, <<"/">>)
  \/ /\ \A t \in Running : ~IsImport(t)
     /\ \E n \in FileNames, c \in LocalContents : ImportFileFromBuffer(n, c, <<"/">>)
  \/ \E e \in pending : WatcherFire(e)
  \/ \E t \in Running : PushHead(t)
  \/ \E t \in Running : PushRead(t)
  \/ \E t \in Running : PushPut(t)
  \/ \E t \in Running : PushAllReaddir(t)
  \/ \E t \in Running : RefreshStep(t)
  \/ \E t \in Running : ImportCopy(t)
  \/ \E t \in Running : ImportStat(t)

SpecTwice == Init /\ [][NextTwice]_vars

\* the application starts on an empty tree while the bucket already holds
\* an object
InitStore ==
  /\ now = 0
  /\ files = [p \in AllFiles |-> NoFile]
  /\ dirs = {UserFilesDir}
  /\ remote = [k \in Keys |->
                 IF k \in SyncKeys
                 THEN [exists |-> TRUE, lastModified |-> 0,
                       meta |-> ToISOString(0), body |-> MaxContent]
                 ELSE NoObj]
  /\ bucket = [exists |-> TRUE, creates |-> 0]
  /\ window = TRUE
  /\ llm = DefaultLlm
  /\ ollama = DefaultChat
  /\ reachable = TRUE
  /\ locked = {}
  /\ watcher = TRUE
  /\ pending = {[ev |-> "ready", path |-> UserFilesDir]}
  /\ tasks = EmptyBag
  /\ reply = NoTask
  /\ fileSystemData = <<>>
  /\ delivered = <<>>
  /\ quiet = "no"
  /\ lastOp = NoOp

SpecStore == InitStore /\ [][NextPush]_vars

\* files and folders are created at the root, the tree is asked for, and
\* the window is closed at some time
NextWindow ==
  \/ \E n \in FileNames, c \in LocalContents : CreateFile(<<"/">>, n, c)
  \/ CreateFolder(<<"/">>, "d")
  \/ GetTree
  \/ WindowClosed
  \/ \E e \in pending : WatcherFire(e)
  \/ \E t \in Running : PushHead(t)
  \/ \E t \in Running : PushRead(t)
  \/ \E t \in Running : PushPut(t)
  \/ \E t \in Running : PushAllReaddir(t)
  \/ \E t \in Running : RefreshStep(t)

SpecWindow == Init /\ [][NextWindow]_vars

\* the application runs, the start-up pass over, at the last instant but one
\* on a tree that holds f and d/f, uploaded, d/f rewritten since by another
\* client: one delete request follows
InitKeys ==
  /\ now = MaxTime - 1
  /\ files = [p \in AllFiles |->
                IF p \in {<<"U", "f">>, <<"U", "d", "f">>}
                THEN [exists |-> TRUE, mtime |-> 0, content |-> 1, origin |-> "user"]
                ELSE NoFile]
  /\ dirs = {UserFilesDir, <<"U", "d">>}
  /\ remote = [k \in Keys |->
                 IF k = <<"f">>
                 THEN [exists |-> TRUE, lastModified |-> 0,
                       meta |-> ToISOString(0), body |-> 1]
                 ELSE IF k = <<"d", "f">>
                 THEN [exists |-> TRUE, lastModified |-> 1,
                       meta |-> ToISOString(1), body |-> MaxContent]
                 ELSE NoObj]
  /\ bucket = [exists |-> TRUE, creates |-> 0]
  /\ window = TRUE
  /\ llm = DefaultLlm
  /\ ollama = DefaultChat
  /\ reachable = TRUE
  /\ locked = {}
  /\ watcher = TRUE
  /\ pending = {}
  /\ tasks = EmptyBag
  /\ reply = NoTask
  /\ fileSystemData = <<>>
  /\ delivered = <<>>
  /\ quiet = "no"
  /\ lastOp = NoOp

NextKeys ==
  \/ /\ \A t \in Running : t.kind # "delItem"
     /\ \E i \in DeleteItems : DeleteItem(i)
  \/ /\ quiet = "no"
     /\ ForceSync
  \/ \E e \in pending : WatcherFire(e)
  \/ \E t \in Running : PushHead(t)
  \/ \E t \in Running : PushRead(t)
  \/ \E t \in Running : PushPut(t)
  \/ \E t \in Running : RemoteDelete(t)
  \/ \E t \in Running : RefreshStep(t)
  \/ \E t \in Running : DelStat(t)
  \/ \E t \in Running : DelEnum(t)
  \/ \E t \in Running : DelRemoteNext(t)
  \/ \E t \in Running : DelRm(t)
  \/ \E t \in Running : DelRemote(t)
  \/ \E t \in Running : DelUnlink(t)
  \/ \E t \in Running : PullList(t)
  \/ \E t \in Running : PullHead(t)
  \/ \E t \in Running : PullGet(t)
  \/ \E t \in Running : PullWrite(t)

SpecKeys == InitKeys /\ [][NextKeys]_vars

\* the application starts on a tree whose folder d holds file f and
\* dotfile .h
InitDot ==
  /\ now = 0
  /\ files = [p \in AllFiles |->
                IF Dirname(p) = <<"U", "d">>
                THEN [exists |-> TRUE, mtime |-> 0, content |-> 1, origin |-> "user"]
                ELSE NoFile]
  /\ dirs = {UserFilesDir, <<"U", "d">>}
  /\ remote = [k \in Keys |-> NoObj]
  /\ bucket = [exists |-> TRUE, creates |-> 0]
  /\ window = TRUE
  /\ llm = DefaultLlm
  /\ ollama = DefaultChat
  /\ reachable = TRUE
  /\ locked = {}
  /\ watcher = TRUE
  /\ pending = {[ev |-> "ready", path |-> UserFilesDir]}
  /\ tasks = EmptyBag
  /\ reply = NoTask
  /\ fileSystemData = <<>>
  /\ delivered = <<>>
  /\ quiet = "no"
  /\ lastOp = NoOp

SpecDot == InitDot /\ [][NextFolder]_vars

\* the user has just saved file f, with any content, into an empty tree
\* beside an empty bucket; f is then edited, deleted, uploaded and pulled
InitRound ==
  /\ now = MaxTime - 2
  /\ \E c \in Contents :
       files = [p \in AllFiles |->
                  IF p \in SyncFiles
                  THEN [exists |-> TRUE, mtime |-> 0, content |-> c, origin |-> "user"]
                  ELSE NoFile]
  /\ dirs = {UserFilesDir}
  /\ remote = [k \in Keys |-> NoObj]
  /\ bucket = [exists |-> TRUE, creates |-> 0]
  /\ window = TRUE
  /\ llm = DefaultLlm
  /\ ollama = DefaultChat
  /\ reachable = TRUE
  /\ locked = {}
  /\ watcher = TRUE
  /\ pending = { [ev |-> "add", path |-> p] : p \in SyncFiles }
  /\ tasks = EmptyBag
  /\ reply = NoTask
  /\ fileSystemData = <<>>
  /\ delivered = <<>>
  /\ quiet = "no"
  /\ lastOp = NoOp

NextRound ==
  \/ \E p \in SyncFiles, c \in Contents : UserWrite(p, c)
  \/ \E p \in SyncFiles : UserDelete(p)
  \/ \E e \in pending : WatcherFire(e)
  \/ ForceSync
  \/ \E t \in Running : PushHead(t)
  \/ \E t \in Running : PushRead(t)
  \/ \E t \in Running : PushPut(t)
  \/ \E t \in Running : RemoteDelete(t)
  \/ \E t \in Running : RefreshStep(t)
  \/ \E t \in Running : PullList(t)
  \/ \E t \in Running : PullHead(t)
  \/ \E t \in Running : PullGet(t)
  \/ \E t \in Running : PullWrite(t)

SpecRound == InitRound /\ [][NextRound]_vars

\* file f is edited while another program opens it exclusively and closes
\* it again
NextLock ==
  \/ \E p \in SyncFiles, c \in ForeignContents : p \notin locked /\ UserWrite(p, c)
  \/ \E p \in SyncFiles : Lock(p)
  \/ \E p \in SyncFiles : Unlock(p)
  \/ \E e \in pending : WatcherFire(e)
  \/ \E t \in Running : PushLocked(t)
  \/ \E t \in Running : PushHead(t)
  \/ \E t \in Running : PushRead(t)
  \/ \E t \in Running : PushPut(t)
  \/ \E t \in Running : RefreshStep(t)

SpecLock == InitSynced /\ [][NextLock]_vars

\* the application runs on a tree and a bucket that agree on files f and
\* d/f, the start-up pass over; both files are edited and deleted while the
\* store goes away and comes back
PathFiles == { <<"U", "f">>, <<"U", "d", "f">> }

InitPaths ==
  /\ now = MaxTime - 2
  /\ files = [p \in AllFiles |->
                IF p \in PathFiles
                THEN [exists |-> TRUE, mtime |-> 0, content |-> 1, origin |-> "user"]
                ELSE NoFile]
  /\ dirs = {UserFilesDir, <<"U", "d">>}
  /\ remote = [k \in Keys |->
                 IF Join(UserFilesDir, k) \in PathFiles
                 THEN [exists |-> TRUE, lastModified |-> 0,
                       meta |-> ToISOString(0), body |-> 1]
                 ELSE NoObj]
  /\ bucket = [exists |-> TRUE, creates |-> 0]
  /\ window = TRUE
  /\ llm = DefaultLlm
  /\ ollama = DefaultChat
  /\ reachable \in BOOLEAN
  /\ locked = {}
  /\ watcher = TRUE
  /\ pending = {}
  /\ tasks = EmptyBag
  /\ reply = NoTask
  /\ fileSystemData = <<>>
  /\ delivered = <<>>
  /\ quiet = "no"
  /\ lastOp = NoOp

NextPaths ==
  \/ NetToggle
  \/ \E p \in PathFiles, c \in ForeignContents : UserWrite(p, c)
  \/ \E p \in PathFiles : UserDelete(p)
  \/ \E e \in pending : WatcherFire(e)
  \/ \E t \in Running : PushHead(t)
  \/ \E t \in Running : PushRead(t)
  \/ \E t \in Running : PushPut(t)
  \/ \E t \in Running : RemoteDelete(t)
  \/ \E t \in Running : RefreshStep(t)

SpecPaths == InitPaths /\ [][NextPaths]_vars

\* a file named .h is imported into folder d from a buffer, one request at
\* a time
NextHidden ==
  \/ /\ \A t \in Running : ~IsImport(t)
     /\ \E n \in DotNames, c \in Buffers :
          ImportFileFromBuffer(n, c, <<"/", "d">>)
  \/ \E e \in pending : WatcherFire(e)
  \/ \E t \in Running : PushHead(t)
  \/ \E t \in Running : PushRead(t)
  \/ \E t \in Running : PushPut(t)
  \/ \E t \in Running : PushAllReaddir(t)
  \/ \E t \in Running : RefreshStep(t)
  \/ \E t \in Running : ImportCopy(t)
  \/ \E t \in Running : ImportStat(t)

SpecHidden == Init /\ [][NextHidden]_vars

-----------------------------------------------------------------------------
(* S3Service.init: createWindow calls it at every window creation *)

\* createWindow: S3Service.init() up to the await of HeadBucketCommand; the
\* call is marked when an earlier init has ended with the bucket in place
S3Init ==
  /\ Room(tasks, 1)
  /\ tasks' = Start(tasks, [NewTask("init", "headBucket", <<>>) EXCEPT
                              !.src = IF lastOp.op = "inited" THEN "again" ELSE "first"])
  /\ reply' = NoTask
  /\ UNCHANGED <<now, localVars, remote, envVars, watcher, pending, treeVars, quiet, lastOp>>

\* answer of HeadBucket with the existence check left out: the bucket is
\* always created
InitHeadNoCheck(t) ==
  /\ t \in Running /\ t.kind = "init" /\ t.pc = "headBucket"
  /\ IF reachable
     THEN /\ tasks' = Replace(t, [t EXCEPT !.pc = "createBucket"])
          /\ reply' = NoTask
     ELSE /\ tasks' = Without(t)
          /\ reply' = [t EXCEPT !.pc = "done", !.res = "error"]
  /\ UNCHANGED <<now, localVars, remote, envVars, watcher, pending, treeVars, quiet, lastOp>>

\* answer of HeadBucket: bucketExists returns true, returns false on 404 (init
\* goes on to createBucket), rethrows anything else into init's catch
InitHead(t) ==
  /\ t \in Running /\ t.kind = "init" /\ t.pc = "headBucket"
  /\ IF reachable /\ ~bucket.exists
     THEN /\ tasks' = Replace(t, [t EXCEPT !.pc = "createBucket"])
          /\ reply' = NoTask
          /\ UNCHANGED lastOp
     ELSE /\ tasks' = Without(t)
          /\ reply' = [t EXCEPT !.pc = "done",
                                 !.res = IF reachable THEN "exists" ELSE "error"]
          /\ lastOp' = IF reachable THEN Returned("inited", <<>>, <<>>, "exists")
                       ELSE lastOp
  /\ UNCHANGED <<now, localVars, remote, envVars, watcher, pending, treeVars, quiet>>

\* answer of CreateBucket: createBucket returns true, or logs the failure
\* (store unreachable, bucket created meanwhile) and returns false; init
\* resolves either way
InitCreate(t) ==
  /\ t \in Running /\ t.kind = "init" /\ t.pc = "createBucket"
  /\ LET ok == reachable /\ ~bucket.exists IN
     /\ bucket' = IF ok THEN [exists |-> TRUE, creates |-> bucket.creates + 1]
                   ELSE bucket
     /\ reply' = [t EXCEPT !.pc = "done", !.res = IF ok THEN "created" ELSE "error"]
     /\ lastOp' = IF ok THEN Returned("inited", <<>>, <<>>, "created") ELSE lastOp
  /\ tasks' = Without(t)
  /\ UNCHANGED <<now, localVars, remote, reachable, locked, window, ollama, llm, watcher, pending, treeVars, quiet>>

\* the application starts against a store that may be down and may lack the
\* bucket
InitBoot ==
  /\ now = 0
  /\ files = [p \in AllFiles |-> NoFile]
  /\ dirs = {UserFilesDir}
  /\ remote = [k \in Keys |-> NoObj]
  /\ bucket \in { [exists |-> b, creates |-> 0] : b \in BOOLEAN }
  /\ window = TRUE
  /\ llm = DefaultLlm
  /\ ollama = DefaultChat
  /\ reachable \in BOOLEAN
  /\ locked = {}
  /\ watcher = FALSE
  /\ pending = {}
  /\ tasks = EmptyBag
  /\ reply = NoTask
  /\ fileSystemData = <<>>
  /\ delivered = <<>>
  /\ quiet = "no"
  /\ lastOp = NoOp

NextBoot ==
  \/ NetToggle
  \/ S3Init
  \/ \E t \in Running : InitHead(t)
  \/ \E t \in Running : InitCreate(t)

SpecBoot == InitBoot /\ [][NextBoot]_vars

-----------------------------------------------------------------------------
(* OllamaChat *)

ChatKinds == { "chat", "chatWithHistory", "streamingChat" }

\* the request chat, chatWithHistory and streamingChat build; system is set
\* only for a non-empty systemPrompt
ChatRequest(how, prompt, systemPrompt) ==
  [sent |-> TRUE, via |-> how, model |-> ollama.modelName, messages |-> prompt,
   stream |-> (how = "streamingChat"), system |-> systemPrompt]

\* chat / chatWithHistory / streamingChat up to `await Ollama.chat(request)`
Chat(how, prompt, systemPrompt) ==
  /\ Room(tasks, 1)
  /\ LET request == ChatRequest(how, prompt, systemPrompt) IN
     /\ ollama' = [ollama EXCEPT !.request = request]
     /\ tasks' = Start(tasks, [NewTask(how, "chat", <<>>) EXCEPT !.src = request.model])
  /\ reply' = NoTask
  /\ UNCHANGED <<now, localVars, remote, reachable, locked, bucket, window, llm, watcher,
                 pending, treeVars, quiet, lastOp>>

\* Ollama.chat resolves and the content is returned, or it rejects and the
\* error is rethrown
ChatAnswer(t) ==
  /\ t \in Running /\ t.kind \in ChatKinds /\ t.pc = "chat"
  /\ \E ok \in BOOLEAN :
       reply' = [t EXCEPT !.pc = "done", !.res = IF ok THEN "content" ELSE "error"]
  /\ tasks' = Without(t)
  /\ UNCHANGED <<now, localVars, remote, envVars, watcher, pending, treeVars, quiet, lastOp>>

\* a setModel that logs the switch and keeps the model
SetModelLogOnly(modelName) ==
  /\ ollama' = [ollama EXCEPT !.chosen = modelName]
  /\ reply' = NoTask
  /\ UNCHANGED <<now, localVars, remote, reachable, locked, bucket, window, llm, watcher,
                 pending, tasks, treeVars, quiet, lastOp>>

\* OllamaChat.setModel
SetModel(modelName) ==
  /\ ollama' = [ollama EXCEPT !.modelName = modelName, !.chosen = modelName]
  /\ reply' = NoTask
  /\ UNCHANGED <<now, localVars, remote, reachable, locked, bucket, window, llm, watcher,
                 pending, tasks, treeVars, quiet, lastOp>>

\* an instance built with any model name
InitChat ==
  /\ now = 0
  /\ files = [p \in AllFiles |-> NoFile]
  /\ dirs = {UserFilesDir}
  /\ remote = [k \in Keys |-> NoObj]
  /\ bucket = [exists |-> TRUE, creates |-> 0]
  /\ window = TRUE
  /\ llm = DefaultLlm
  /\ ollama \in { NewOllamaChat(m) : m \in ModelNames }
  /\ reachable = TRUE
  /\ locked = {}
  /\ watcher = FALSE
  /\ pending = {}
  /\ tasks = EmptyBag
  /\ reply = NoTask
  /\ fileSystemData = <<>>
  /\ delivered = <<>>
  /\ quiet = "no"
  /\ lastOp = NoOp

NextChat ==
  \/ \E how \in ChatKinds, p \in Prompts, sp \in SystemPrompts : Chat(how, p, sp)
  \/ \E m \in ModelNames : SetModel(m)
  \/ \E t \in Running : ChatAnswer(t)

SpecChat == InitChat /\ [][NextChat]_vars

-----------------------------------------------------------------------------
(* Model manager: downloadModel, setCurrentModel, cancelModelDownload *)

\* path.join(getUserModelsDir(), currentModelConfig.filename)
GetModelPath == <<llm.currentModelConfig, "gguf">>

\* path.join(getUserModelsDir(), `${currentModelConfig.filename}.download`)
GetTempPath == <<llm.currentModelConfig, "download">>

\* setCurrentModel(modelId) for a known id
SetCurrentModel(modelId) ==
  /\ llm' = [llm EXCEPT !.currentModelConfig = modelId]
  /\ reply' = NoTask
  /\ UNCHANGED <<now, localVars, remote, reachable, locked, bucket, window, ollama,
                 watcher, pending, tasks, treeVars, quiet, lastOp>>

\* downloadModel(win, modelId, cb) up to checkDiskSpace(...).then: the
\* model is made current; one download per model runs at a time
DownloadModel(modelId) ==
  /\ Room(tasks, 1)
  /\ \A t \in Running : t.kind = "download" => t.src # modelId
  /\ llm' = [llm EXCEPT !.currentModelConfig = modelId]
  /\ tasks' = Start(tasks, [NewTask("download", "space", <<>>) EXCEPT !.src = modelId])
  /\ reply' = NoTask
  /\ UNCHANGED <<now, localVars, remote, reachable, locked, bucket, window, ollama,
                 watcher, pending, treeVars, quiet, lastOp>>

\* answer of checkDiskSpace: rejection, or the temporary file of the current
\* model is recreated and the request for the current model's url is sent
DownloadSpace(t) ==
  /\ t \in Running /\ t.kind = "download" /\ t.pc = "space"
  /\ \E hasEnoughSpace \in BOOLEAN :
       IF hasEnoughSpace
       THEN /\ llm' = [llm EXCEPT !.dir[GetTempPath] = llm.currentModelConfig,
                                  !.currentDownload = t.src]
            /\ tasks' = Replace(t, [t EXCEPT !.pc = "get", !.path = GetTempPath,
                                             !.key = <<llm.currentModelConfig>>])
            /\ reply' = NoTask
       ELSE /\ tasks' = Without(t)
            /\ reply' = [t EXCEPT !.pc = "done", !.res = "noSpace"]
            /\ UNCHANGED llm
  /\ UNCHANGED <<now, localVars, remote, reachable, locked, bucket, window, ollama,
                 watcher, pending, treeVars, quiet, lastOp>>

\* fileStream 'finish' with response.complete: renameSync(tempPath,
\* getModelPath()), which throws when the temporary file is gone
DownloadFinish(t) ==
  /\ t \in Running /\ t.kind = "download" /\ t.pc = "get"
  /\ tasks' = Without(t)
  /\ IF llm.dir[t.path] = "none"
     THEN /\ reply' = [t EXCEPT !.pc = "done", !.res = "crash"]
          /\ UNCHANGED llm
     ELSE /\ reply' = [t EXCEPT !.pc = "done", !.res = "ok"]
          /\ llm' = [llm EXCEPT !.dir = [[llm.dir EXCEPT ![t.path] = "none"]
                                           EXCEPT ![GetModelPath] = llm.dir[t.path]],
                                !.currentDownload = "null"]
  /\ UNCHANGED <<now, localVars, remote, reachable, locked, bucket, window, ollama,
                 watcher, pending, treeVars, quiet, lastOp>>

\* 'error' of the request or of the response, also after an abort: the
\* captured temporary file is removed and the promise is rejected
DownloadFail(t) ==
  /\ t \in Running /\ t.kind = "download" /\ t.pc \in {"get", "aborted"}
  /\ tasks' = Without(t)
  /\ reply' = [t EXCEPT !.pc = "done", !.res = "error"]
  /\ llm' = [llm EXCEPT !.dir[t.path] = "none", !.currentDownload = "null"]
  /\ UNCHANGED <<now, localVars, remote, reachable, locked, bucket, window, ollama,
                 watcher, pending, treeVars, quiet, lastOp>>

\* cancelModelDownload: the current request is aborted and the temporary
\* file of the current model is removed
CancelModelDownload ==
  /\ llm.currentDownload # "null"
  /\ llm' = [llm EXCEPT !.dir[GetTempPath] = "none", !.currentDownload = "null"]
  /\ \E t \in Running :
       /\ t.kind = "download" /\ t.pc = "get" /\ t.src = llm.currentDownload
       /\ tasks' = Replace(t, [t EXCEPT !.pc = "aborted"])
  /\ reply' = NoTask
  /\ UNCHANGED <<now, localVars, remote, reachable, locked, bucket, window, ollama,
                 watcher, pending, treeVars, quiet, lastOp>>

InitModels ==
  /\ now = 0
  /\ files = [p \in AllFiles |-> NoFile]
  /\ dirs = {UserFilesDir}
  /\ remote = [k \in Keys |-> NoObj]
  /\ bucket = [exists |-> TRUE, creates |-> 0]
  /\ window = TRUE
  /\ llm = DefaultLlm
  /\ ollama = DefaultChat
  /\ reachable = TRUE
  /\ locked = {}
  /\ watcher = FALSE
  /\ pending = {}
  /\ tasks = EmptyBag
  /\ reply = NoTask
  /\ fileSystemData = <<>>
  /\ delivered = <<>>
  /\ quiet = "no"
  /\ lastOp = NoOp

NextModels ==
  \/ \E m \in ModelIds : SetCurrentModel(m)
  \/ \E m \in ModelIds : DownloadModel(m)
  \/ CancelModelDownload
  \/ \E t \in Running : DownloadSpace(t)
  \/ \E t \in Running : DownloadFinish(t)
  \/ \E t \in Running : DownloadFail(t)

SpecModels == InitModels /\ [][NextModels]_vars

-----------------------------------------------------------------------------
(* Claims *)

\* the push rule as the specification words it: upload iff the remote object
\* is absent, or has no origin mtime, or has an origin mtime T2 with T1 > T2
ClaimUploads(m, T1) == ~m.found \/ ~m.hasX \/ T1 > m.XOriginalMtime

\* C1: uploadFile of an unlocked file with mtime T1 goes on to upload iff the
\* remote object is absent, has no origin mtime, or has origin mtime T2 < T1;
\* the upload stamps the object with T1; when T2 >= T1 nothing is uploaded and
\* the remote object stays as the metadata request saw it.
C1_PushRule ==
  /\ \A t \in Running :
       IsPusher(t) /\ t.pc \in {"read", "put"} => ClaimUploads(t.meta, t.mtime)
  /\ IsPusher(reply) /\ reply.res = "uploaded" =>
       /\ ClaimUploads(reply.meta, reply.mtime)
       /\ remote[reply.key].exists
       /\ remote[reply.key].meta = ToISOString(reply.mtime)
  /\ IsPusher(reply) /\ reply.res = "skip" =>
       /\ ~ClaimUploads(reply.meta, reply.mtime)
       /\ HeadObject(reply.key) = reply.meta

\* an upload was skipped for a file exactly as old as the remote origin mtime
C1_Witness ==
  /\ reply.kind = "push" /\ reply.res = "skip"
  /\ reply.meta.hasX /\ reply.meta.XOriginalMtime = reply.mtime
  /\ reply.mtime > 0

\* C2: in pullAll a key whose local file exists with mtime T1 is downloaded
\* iff the object's origin mtime T2 is strictly greater than T1 (the store's
\* own LastModified plays no part).
C2_PullRule ==
  /\ \A t \in Running :
       t.kind = "pull" /\ t.pc \in {"get", "write"} /\ t.res = "newer" =>
         PullDownloadsByOrigin(t.meta, t.mtime)
  /\ reply.kind = "pull" /\ reply.res = "skip" =>
       ~PullDownloadsByOrigin(reply.meta, reply.mtime)

\* C3: in pullAll an object without origin-mtime metadata is never downloaded
\* over an existing local file.
C3_NoMetaNoOverwrite ==
  \A t \in Running :
    t.kind = "pull" /\ t.pc \in {"get", "write"} /\ t.res = "newer" => t.meta.hasX

\* C4: the add/change event raised by a pull download never leads to a
\* PutObject for that path.
C4_NoFeedback ==
  ~(reply.kind = "push" /\ reply.res = "uploaded" /\ reply.src = "download")

\* C5: a forceSync run started at rest (the watcher events of the first run
\* all handled) after a completed run, with no outside change since that
\* first run started from rest, downloads nothing.
C5_ForceSyncIdempotent ==
  \A t \in Running :
    t.kind = "pull" /\ t.mark = "second" /\ quiet = "after1" =>
      t.pc \notin {"get", "write"}

\* every task has finished and chokidar has nothing left to emit
AtRest == tasks = EmptyBag /\ pending = {}

KeyOf(p) == StripSlash(Relative(UserFilesDir, p))

\* C6: after createFile created P and deleteItem(P) returned success, once the
\* watcher's tasks have all finished (the upload for P's add event included),
\* P is absent locally and the store holds no object under P's key.
C6_CreateDeleteAbsent ==
  (lastOp.op = "deleted" /\ lastOp.src = "create" /\ AtRest)
    => /\ ~files[lastOp.path].exists
       /\ ~remote[KeyOf(lastOp.path)].exists

\* keys of the files a directory contains, at any depth, in readdir order
RECURSIVE KeysOf(_, _)
KeysOf(entries, baseRelativePath) ==
  IF entries = <<>> THEN <<>>
  ELSE LET e   == Head(entries)
           rel == Join(baseRelativePath, <<Basename(e)>>) IN
       (IF IsDir(e) THEN KeysOf(Readdir(e), rel) ELSE <<rel>>)
         \o KeysOf(Tail(entries), baseRelativePath)

Contained(d) == { p \in AllFiles : IsFile(p) /\ Under(d, p) }

\* C7: deleteItem on a directory with N files enumerates their keys, issues
\* exactly N remote deletes, one per contained file's key, and removes the
\* local directory only after all of them returned: while it enumerates and
\* deletes remotely the N files are still there, when it is about to call rm
\* the requests issued are the contained keys, and it returns with N issued.
C7_FolderDeleteOrder ==
  /\ \A t \in Running :
        (t.kind = "delItem" /\ t.pc \in {"enum", "rdelAll", "rm"})
          => /\ IsDir(t.path)
             /\ Cardinality(Contained(t.path)) = t.n
             /\ Len(t.issued) <= t.n
             /\ t.pc = "rm" => /\ t.issued = KeysOf(Readdir(t.path), t.key)
                               /\ Len(t.issued) = t.n
  /\ (reply.kind = "delItem" /\ reply.res = "ok" /\ reply.path \in AllDirs)
        => /\ Len(reply.issued) = reply.n
           /\ Cardinality({ reply.issued[j] : j \in 1..Len(reply.issued) }) = reply.n
           /\ ~IsDir(reply.path)
           /\ Contained(reply.path) = {}

C7_Witness ==
  /\ reply.kind = "delItem" /\ reply.res = "ok"
  /\ reply.n = 2
  /\ reply.issued = << <<"d", "f">>, <<"d", "s", "f">> >>

\* C8: after moveItem on a file returned success and the tasks of its unlink
\* and add notifications have finished, the store holds no object under the
\* old key (when the key changed) and holds the moved file under the new key.
C8_MoveRemote ==
  (lastOp.op = "moved" /\ AtRest)
    => /\ lastOp.dst # lastOp.path => ~remote[KeyOf(lastOp.path)].exists
       /\ files[lastOp.dst].exists
       /\ remote[KeyOf(lastOp.dst)].exists
       /\ remote[KeyOf(lastOp.dst)].body = files[lastOp.dst].content

\* C9: with the watcher running, the step in which an import handler returns
\* success is the step that starts the tasks of one add notification for the
\* target path: one snapshot refresh and one upload attempt.
C9_ImportEmitsAdd ==
  [][(IsImport(reply') /\ reply'.res = "ok" /\ watcher)
       => \E t \in Running :
            /\ IsImport(t) /\ t.pc = "stat"
            /\ tasks' = OnAdd(Without(t), t.path)]_vars

C9_Witness ==
  /\ IsImport(reply) /\ reply.res = "ok" /\ watcher
  /\ [ev |-> "add", path |-> reply.path] \in pending
  /\ RefreshBegin \in Running
  /\ PushBegin(NewTask("push", "head", reply.path), reply.path) \in Running

\* C10: the published snapshot and the value pushed to the renderer change
\* only in the step that ends one scan, and then both become that scan's
\* complete result; getTree returns the published snapshot and changes
\* nothing.  A partially built list is never published.
C10_SnapshotAtomic ==
  [][/\ (treeVars' # treeVars)
          => \E t \in Running :
               /\ t.kind = "refresh"
               /\ LET u == IF t.work = <<>> THEN t ELSE ScanStep(t) IN
                  /\ u.work = <<>>
                  /\ fileSystemData' = u.list
                  /\ delivered' = u.list
                  /\ tasks' = Without(t)
     /\ (reply'.kind = "getTree")
          => /\ reply'.list = fileSystemData
             /\ treeVars' = treeVars]_vars

C10_Witness ==
  /\ reply.kind = "getTree"
  /\ reply.list = fileSystemData
  /\ Len(fileSystemData) >= 2
  /\ \E t \in Running :
       /\ t.kind = "refresh" /\ t.work # <<>> /\ t.list # <<>>
       /\ t.list # fileSystemData

\* C11: after every successful upload the object's x-original-mtime metadata
\* is the ISO-8601 form of the modification time uploadFile read from the
\* local file for that upload, and reads back as that time; it is not the
\* instant of the upload.
C11_StampIsLocalMtime ==
  (IsPusher(reply) /\ reply.res = "uploaded")
    => /\ remote[reply.key].exists
       /\ remote[reply.key].meta = ToISOString(reply.mtime)
       /\ HeadObject(reply.key).hasX
       /\ HeadObject(reply.key).XOriginalMtime = reply.mtime

C11_Witness ==
  /\ IsPusher(reply) /\ reply.res = "uploaded"
  /\ reply.mtime > 0 /\ reply.mtime < now
  /\ remote[reply.key].lastModified = now
  /\ HeadObject(reply.key).XOriginalMtime = reply.mtime

\* C12: in a pull pass, a listed key whose local file is missing when the
\* loop reaches it goes straight to the download, with no metadata request
\* and no timestamp test, after its parent directories were created; the
\* download that succeeds leaves the object's body in the local file.
C12_MissingLocalDownloaded ==
  [][/\ \A u \in BagToSet(tasks') \ Running :
          (u.kind = "pull" /\ u.pc \in {"head", "get"} /\ ~files'[u.path].exists)
            => /\ u.pc = "get" /\ u.res = "missing"
               /\ u.meta = NoHead
               /\ Dirname(u.path) \in dirs'
     /\ (reply'.kind = "pull" /\ reply'.res = "downloaded")
          => /\ files'[reply'.path].exists
             /\ files'[reply'.path].content = reply'.body]_vars

C12_Witness ==
  /\ reply.kind = "pull" /\ reply.res = "downloaded"
  /\ reply.meta = NoHead
  /\ reply.path = <<"U", "d", "f">>
  /\ files[reply.path].content = remote[reply.key].body
  /\ [ev |-> "addDir", path |-> <<"U", "d">>] \in pending

\* The scenario of docs/readme.txt, here d/f: each outside step is taken
\* when the engine is at rest.  createFile at t0; another client rewrites
\* the uploaded object with x-original-mtime t0 + 1; forceSync; the user
\* edits the downloaded file.
ScenFile == <<"U", "d", "f">>
ScenKey  == <<"d", "f">>

ScenCreate ==
  /\ AtRest /\ ~files[ScenFile].exists
  /\ \E c \in LocalContents : CreateFile(<<"/", "d">>, "f", c)

ScenRewrite ==
  /\ AtRest /\ files[ScenFile].origin = "create"
  /\ remote[ScenKey].exists /\ remote[ScenKey].body \in LocalContents
  /\ \E c \in ForeignContents :
       ForeignPut(ScenKey, ToISOString(files[ScenFile].mtime + 1), c)

ScenForceSync ==
  /\ AtRest /\ files[ScenFile].origin = "create"
  /\ remote[ScenKey].exists /\ remote[ScenKey].body \in ForeignContents
  /\ ForceSync

ScenEdit ==
  /\ AtRest /\ files[ScenFile].origin = "download"
  /\ \E c \in LocalContents : UserWrite(ScenFile, c)

NextScenario ==
  \/ Tick
  \/ ScenCreate
  \/ ScenRewrite
  \/ ScenForceSync
  \/ ScenEdit
  \/ \E e \in pending : WatcherFire(e)
  \/ \E t \in Running : PushHead(t)
  \/ \E t \in Running : PushRead(t)
  \/ \E t \in Running : PushPut(t)
  \/ \E t \in Running : PushAllReaddir(t)
  \/ \E t \in Running : RefreshStep(t)
  \/ \E t \in Running : PullList(t)
  \/ \E t \in Running : PullHead(t)
  \/ \E t \in Running : PullGet(t)
  \/ \E t \in Running : PullWrite(t)

SpecScenario == Init /\ [][NextScenario]_vars

\* C13: in the scenario each of the three transfers happens.  At rest after
\* createFile and before the rewrite, the object carries the file's content
\* and x-original-mtime t0; the forced pull pass finds the rewritten object
\* and ends having downloaded it; at rest after the edit, the object carries
\* the edited content and the edit's mtime as x-original-mtime.
C13_Scenario ==
  /\ (AtRest /\ files[ScenFile].origin = "create"
        /\ remote[ScenKey].body \notin ForeignContents)
       => /\ remote[ScenKey].exists
          /\ remote[ScenKey].body = files[ScenFile].content
          /\ HeadObject(ScenKey).XOriginalMtime = files[ScenFile].mtime
  /\ (reply.kind = "pull" /\ reply.pc = "done")
       => /\ reply.res = "downloaded"
          /\ files[ScenFile].origin = "download"
          /\ files[ScenFile].content \in ForeignContents
  /\ (AtRest /\ files[ScenFile].origin = "user")
       => /\ remote[ScenKey].exists
          /\ remote[ScenKey].body = files[ScenFile].content
          /\ HeadObject(ScenKey).XOriginalMtime = files[ScenFile].mtime

C13_Witness ==
  /\ AtRest /\ files[ScenFile].origin = "user"
  /\ remote[ScenKey].body = files[ScenFile].content
  /\ HeadObject(ScenKey).XOriginalMtime = files[ScenFile].mtime
  /\ files[ScenFile].mtime = MaxTime

\* C14: when a forced pull pass has been started since the last outside
\* change, possibly while pushes were running, and the engine has come to
\* rest (no task, no event left), every path present on both sides has the
\* same content locally and in the store.
C14_QuiescentEqual ==
  (AtRest /\ quiet # "no")
    => \A p \in SyncFiles :
         (files[p].exists /\ remote[KeyOf(p)].exists)
           => remote[KeyOf(p)].body = files[p].content

\* C15: when the remote delete of a locally deleted path P has failed and,
\* with no outside change of files or objects since, the store is reachable
\* and a forced pull pass has run to its end, P is absent on both sides.
C15_DeleteHeals ==
  (lastOp.op = "deleteFailed" /\ AtRest /\ reachable /\ quiet # "no")
    => /\ ~files[lastOp.path].exists
       /\ ~remote[KeyOf(lastOp.path)].exists

\* C16: when the upload of a locally newer file P has failed because the
\* store was unreachable and, with no outside change of files or objects
\* since, the store is reachable and a forced pull pass has run to its end,
\* the object of P matches the local file.
C16_UploadHeals ==
  (lastOp.op = "uploadFailed" /\ AtRest /\ reachable /\ quiet # "no"
     /\ files[lastOp.path].exists)
    => /\ remote[KeyOf(lastOp.path)].exists
       /\ remote[KeyOf(lastOp.path)].body = files[lastOp.path].content

\* kinds of the handlers of the renderer's surface other than force-sync
SurfaceKinds == {"create", "createFolder", "delItem", "import", "importBuffer",
                 "move", "read"}

\* the returned object has a boolean success, and an error exactly when
\* success is false
Envelope(r) == r.returned /\ (r.error <=> ~r.success)

\* C17: every handler of the renderer's surface that ends hands back an
\* object with a boolean success, and an error when success is false:
\* createFile, createFolder, deleteItem, importFile, importFileFromBuffer,
\* moveItem and readFile whenever they reply, forceSync whenever its pull
\* pass leaves the set of running functions.
C17_AlwaysEnvelope ==
  [][/\ reply'.kind \in SurfaceKinds => Envelope(reply'.ret)
     /\ PullsRunning' < PullsRunning
          => reply'.kind = "pull" /\ Envelope(reply'.ret)]_vars

\* deleteItem of a path that does not exist has returned {success: false,
\* error} while the store was unreachable
C17_Witness ==
  /\ reply.kind = "delItem" /\ ~Exists(reply.path)
  /\ reply.ret = Failure /\ ~reachable

\* C18: deleteItem(P) that replies while P does not exist locally returns
\* {success: true}.
C18_MissingIsSuccess ==
  (reply.kind = "delItem" /\ ~Exists(reply.path)) => reply.ret.success

\* C19: the start-up push-all pass processes every file of the tree that no
\* failure concerns: once the pass is over and nothing is pending, root file
\* f, which nobody touches, has its object in the reachable store, whatever
\* happened to folder d meanwhile.
C19_BatchIsolation ==
  (AtRest /\ files[<<"U", "f">>].exists) => remote[<<"f">>].exists

\* a local reason for the handler that replies with record r to fail
LocalCause(r) ==
  CASE r.kind = "delItem"                  -> ~Exists(r.path)
    [] r.kind \in {"import", "importBuffer"} -> ~IsFile(r.path)
    [] r.kind = "move"                     -> \/ ~IsFile(r.path) \/ ~IsFile(r.dst)
                                              \/ Dirname(r.dst) \notin dirs
    [] OTHER                               -> FALSE

\* C20: a createFile, createFolder, deleteItem, importFile,
\* importFileFromBuffer or moveItem that replies while the store is
\* unreachable returns success unless a local reason made it fail, and on
\* success its local effect is there: the created file or folder exists, the
\* deleted path is gone, the imported or moved file is at its target.
C20_DegradedMode ==
  [][(~reachable /\ reply'.kind \in SurfaceKinds \ {"read"})
       => /\ reply'.ret.success \/ LocalCause(reply')
          /\ reply'.ret.success =>
               CASE reply'.kind = "create" ->
                      /\ files'[reply'.path].exists
                      /\ files'[reply'.path].origin = "create"
                      /\ files'[reply'.path].mtime = now'
                 [] reply'.kind = "createFolder" -> reply'.path \in dirs'
                 [] reply'.kind = "delItem" ->
                      /\ reply'.path \notin dirs'
                      /\ reply'.path \in AllFiles => ~files'[reply'.path].exists
                 [] reply'.kind = "move" -> files'[reply'.dst].exists
                 [] OTHER -> files'[reply'.path].exists]_vars

\* deleteItem of file f has returned success with f gone locally while the
\* store, unreachable since start-up, still holds the object
C20_Witness ==
  /\ reply.kind = "delItem" /\ reply.ret.success /\ ~reachable
  /\ reply.issued = << <<"f">> >> /\ remote[<<"f">>].exists
  /\ ~files[<<"U", "f">>].exists /\ now = 1

\* C21: S3Service.init always resolves, whatever HeadBucket and CreateBucket
\* answer; a CreateBucket request is sent only by a call whose existence
\* check found no bucket, a call made after an init that ended with the
\* bucket in place sends none, and the bucket is created at most once.
C21_InitIdempotent ==
  [][/\ reply'.kind = "init" => reply'.res \in {"exists", "created", "error"}
     /\ \A t \in BagToSet(tasks') \ Running :
          (t.kind = "init" /\ t.pc = "createBucket")
            => ~bucket.exists /\ reachable /\ t.src = "first"
     /\ bucket'.creates <= 1]_vars

\* an init called after the one that created the bucket has ended on the
\* existence check
C21_Witness ==
  /\ reply.kind = "init" /\ reply.src = "again" /\ reply.res = "exists"
  /\ bucket.creates = 1

\* number of uploads (single pushes and push-all passes) in flight
Pushers ==
  LET ps == { t \in Running : IsPusher(t) } IN
  IF ps = {} THEN 0 ELSE BagCardinality([t \in ps |-> tasks[t]])

\* C22 as stated: every upload of a file written by createFile is a single
\* push, the one the watcher's add event starts.
C22_OnlyAddUploads ==
  \A t \in Running :
    (IsPusher(t) /\ t.pc \in {"head", "read", "put"} /\ t.src = "create")
      => t.kind = "push"

\* C22 amended: the step in which createFile or createFolder returns changes
\* no object and starts no task; an upload starts only when the watcher
\* emits an add, change or ready event; no upload is ever made for a
\* directory.
C22_CreateIsLocal ==
  [][/\ reply'.kind \in {"create", "createFolder"}
          => remote' = remote /\ tasks' = tasks
     /\ Pushers' > Pushers
          => \E e \in pending \ pending' : e.ev \in {"add", "change", "ready"}
     /\ \A t \in BagToSet(tasks') :
          (IsPusher(t) /\ t.pc \in {"head", "read", "put", "locked"})
            => t.path \in AllFiles]_vars

\* the file createFile wrote has been uploaded by the single push of its
\* add event
C22_Witness ==
  /\ reply.kind = "push" /\ reply.res = "uploaded" /\ reply.src = "create"
  /\ remote[reply.key].exists /\ <<"U", "d">> \in dirs

\* C23: when imports of one name into one directory follow one another,
\* each of them returns success and, when it returns, the file at the target
\* path holds the content of that import: after the second import the
\* content of the second.
C23_LastImportWins ==
  [][IsImport(reply')
       => /\ reply'.ret.success
          /\ files'[reply'.path].exists
          /\ files'[reply'.path].content = reply'.body]_vars

\* the second import of f has returned: the file holds its content while
\* the object uploaded after the first import still holds the other content
C23_Witness ==
  /\ IsImport(reply) /\ reply.ret.success
  /\ files[reply.path].content = reply.body
  /\ remote[KeyOf(reply.path)].exists
  /\ remote[KeyOf(reply.path)].body # reply.body
  /\ HeadObject(KeyOf(reply.path)).XOriginalMtime < files[reply.path].mtime

\* C24: the pass started by the ready event ends with a pull of every remote
\* key: once it is over, with nothing pending and before any outside event,
\* every object of the bucket has its local file.
C24_ReadyPullsAll ==
  (AtRest /\ now = 0)
    => \A k \in SyncKeys : remote[k].exists => files[Join(UserFilesDir, k)].exists

\* C25: while the window exists, every replacement of the published
\* snapshot delivers that snapshot on 'file-system-updated': the value last
\* delivered equals the published one, which is what getTree returns.
C25_DeliveredIsPublished ==
  [][/\ window' => delivered' = fileSystemData'
     /\ (reply'.kind = "getTree" /\ window') => reply'.list = delivered']_vars

\* getTree has returned a snapshot with two entries, the one delivered, to
\* the window that is still there
C25_Witness ==
  /\ window /\ reply.kind = "getTree"
  /\ Len(fileSystemData) = 2 /\ reply.list = delivered /\ delivered = fileSystemData

\* the segments of full path p below the root
BelowRoot(p) == SubSeq(p, Len(UserFilesDir) + 1, Len(p))

C27_ScansSkipDots ==
  /\ \A i \in 1..Len(fileSystemData) : fileSystemData[i].name \notin DotNames
  /\ \A t \in Running :
       /\ t.kind = "refresh"
            => \A i \in 1..Len(t.list) : t.list[i].name \notin DotNames
       /\ (IsPusher(t) /\ t.pc \in {"head", "read", "put", "locked"})
            => Basename(t.path) \notin DotNames
       /\ t.kind = "delItem"
            => \A i \in 1..Len(t.list) : Basename(t.list[i]) \notin DotNames

\* C28: uploading file F and then downloading the resulting key where no
\* file exists gives back F's content.  Step by step: the body an upload
\* is about to send is the content F has when it is read; an upload that
\* succeeds leaves that body in the object; the body a download is about
\* to write is the object's; a download that succeeds leaves a file with
\* that body as its content.
C28_RoundTrip ==
  [][/\ \A u \in BagToSet(tasks') \ BagToSet(tasks) :
          /\ (IsPusher(u) /\ u.pc = "put")
               => files[u.path].exists /\ u.body = files[u.path].content
          /\ (u.kind = "pull" /\ u.pc = "write")
               => remote[u.key].exists /\ u.body = remote[u.key].body
     /\ (IsPusher(reply') /\ reply'.res = "uploaded")
          => remote'[reply'.key].exists /\ remote'[reply'.key].body = reply'.body
     /\ (reply'.kind = "pull" /\ reply'.res = "downloaded")
          => /\ files'[reply'.path].exists
             /\ files'[reply'.path].content = reply'.body
             /\ reply'.path = Join(UserFilesDir, reply'.key)]_vars

\* a pull pass has just downloaded, to a path where no file existed, the
\* object an upload of this run had stored, and the file has its content
C28_Witness ==
  /\ reply.kind = "pull" /\ reply.res = "downloaded" /\ reply.meta = NoHead
  /\ remote[reply.key].exists /\ remote[reply.key].meta # <<>>
  /\ remote[reply.key].body = MaxContent
  /\ files[reply.path].content = MaxContent

\* the model OllamaChat must use now: that of the last setModel, or the
\* constructor's when setModel was never called
ModelInForce == IF ollama.chosen = "none" THEN ollama.given ELSE ollama.chosen

\* C29: every request passed to Ollama.chat carries the model of the last
\* setModel before it, or the constructor's model when there was none; a
\* request in flight keeps the model it was sent with.
C29_ModelInForce ==
  [][/\ BagCardinality(tasks') > BagCardinality(tasks)
          => /\ ollama'.request.sent
             /\ ollama'.request.model = ModelInForce
             /\ \E t \in BagToSet(tasks') :
                  /\ t.kind \in ChatKinds /\ t.src = ModelInForce
                  /\ tasks' = Start(tasks, t)
     /\ ollama'.modelName # ollama.modelName => tasks' = tasks]_vars

\* a request sent with the constructor's model m2 is still in flight, the
\* model has been set to m1 and the request sent after that carries m1
C29_Witness ==
  /\ ollama.given = "m2" /\ ollama.chosen = "m1"
  /\ ollama.request.sent /\ ollama.request.model = "m1"
  /\ \E t \in Running : t.kind = "chat" /\ t.src = "m2"
  /\ \E t \in Running : t.kind = "chat" /\ t.src = "m1"

\* C30: the handler of an add or change event leaves no refresh behind: when
\* it returns, with the push of the file started, the refresh it called has
\* ended and the snapshot is stored and published.
C30_RefreshBeforePush ==
  [][(\E e \in pending \ pending' : e.ev \in {"add", "change"})
       => \A t \in BagToSet(tasks') :
            CopiesIn(t, tasks') > CopiesIn(t, tasks) => t.kind # "refresh"]_vars

\* C31: the handler of an unlink event for path P starts one refresh and
\* one remote delete, for P's key; no other step starts a remote delete;
\* the delete request touches no other key, and when it fails it is logged,
\* the object stays and the request is not made again.
C31_UnlinkDeletesOnce ==
  [][/\ \A e \in pending :
          (e.ev = "unlink" /\ pending' = pending \ {e} /\ tasks' # tasks)
            => \E r, d \in BagToSet(tasks') :
                 /\ r.kind = "refresh" /\ d.kind = "rdel" /\ d.pc = "del"
                 /\ d.key = BelowRoot(e.path)
                 /\ tasks' = Start(Start(tasks, r), d)
                 /\ remote' = remote
     /\ (\A e \in pending :
            e.ev = "unlink" => ~(pending' = pending \ {e} /\ tasks' # tasks))
          => \A d \in BagToSet(tasks') :
               d.kind = "rdel" => CopiesIn(d, tasks') <= CopiesIn(d, tasks)
     /\ reply'.kind = "rdel"
          => /\ BagCardinality(tasks') = BagCardinality(tasks) - 1
             /\ \A k \in Keys \ {reply'.key} : remote'[k] = remote[k]
             /\ reply'.res = "deleted" => ~remote'[reply'.key].exists
             /\ reply'.res = "error"
                  => remote' = remote /\ lastOp'.op = "deleteFailed"]_vars

\* the remote delete started by an unlink event has failed: the object is
\* still stored and no delete request is in flight
C31_Witness ==
  /\ reply.kind = "rdel" /\ reply.res = "error"
  /\ lastOp.op = "deleteFailed" /\ lastOp.path = reply.path
  /\ ~files[reply.path].exists /\ remote[reply.key].exists
  /\ \A t \in Running : t.kind # "rdel"

\* C32: a metadata request that fails in transport ends the upload or the
\* pull of that key with an error: nothing is uploaded, nothing is
\* downloaded and the pull moves on to the next key.  A metadata request
\* answered "no such object" lets the upload go on to read the file, and one
\* answered with an object hands its metadata to the comparison.
C32_NotFoundIsNotFailure ==
  [][\A t \in Running :
       (t.pc = "head" /\ CopiesIn(t, tasks') < CopiesIn(t, tasks))
         => /\ (IsPusher(t) /\ ~reachable)
                 => /\ remote' = remote
                    /\ reply'.res = "error" /\ reply'.key = t.key
                    /\ lastOp'.op = "uploadFailed"
                    /\ \A u \in BagToSet(tasks') :
                         (IsPusher(u) /\ u.pc \in {"read", "put"})
                           => CopiesIn(u, tasks') <= CopiesIn(u, tasks)
            /\ (t.kind = "pull" /\ ~reachable)
                 => /\ files' = files
                    /\ reply'.res = "error" /\ reply'.key = t.key
                    /\ \A u \in BagToSet(tasks') :
                         (u.kind = "pull" /\ CopiesIn(u, tasks') > CopiesIn(u, tasks))
                           => u.i = t.i + 1
            /\ (IsPusher(t) /\ reachable /\ ~remote[t.key].exists)
                 => /\ reply' = NoTask
                    /\ tasks' = Replace(t, [t EXCEPT !.pc = "read"])
            /\ (reachable /\ remote[t.key].exists)
                 => \/ reply'.meta.found
                    \/ \E u \in BagToSet(tasks') : u.key = t.key /\ u.meta.found]_vars

\* the metadata request of an upload has failed in transport while the
\* store holds no object for the key: the file exists and nothing is stored
C32_Witness ==
  /\ IsPusher(reply) /\ reply.res = "error" /\ ~reply.meta.found
  /\ lastOp.op = "uploadFailed" /\ lastOp.src = "head"
  /\ files[reply.path].exists /\ ~remote[reply.key].exists
  /\ \A t \in Running : ~IsPusher(t)

\* C33: an upload whose file cannot be opened for reading and writing
\* issues no request: it never reaches the metadata request, the read or
\* the put, and it ends with no error recorded and with the store and the
\* local files as they were; an upload that does issue its metadata
\* request found the file present and open to it.
C33_LockedIsSkipped ==
  [][/\ \A u \in BagToSet(tasks') :
          (IsPusher(u) /\ CopiesIn(u, tasks') > CopiesIn(u, tasks))
            => /\ u.pc = "head" => (files[u.path].exists /\ u.path \notin locked)
               /\ u.pc = "locked" => (~files[u.path].exists \/ u.path \in locked)
     /\ \A t \in Running :
          (IsPusher(t) /\ t.pc = "locked" /\ CopiesIn(t, tasks') < CopiesIn(t, tasks))
            => /\ reply'.res = "locked" /\ reply'.path = t.path
               /\ ~reply'.meta.found
               /\ remote' = remote /\ files' = files /\ lastOp' = lastOp
               /\ t.kind = "push" => tasks' = Without(t)]_vars

\* the upload of an edited file has ended on the lock: the file is still
\* held, and the object keeps the content it had before the edit
C33_Witness ==
  /\ reply.kind = "push" /\ reply.res = "locked"
  /\ reply.path \in locked /\ files[reply.path].exists
  /\ files[reply.path].content = MaxContent
  /\ remote[reply.key].exists /\ remote[reply.key].body = 1
  /\ HeadObject(reply.key).XOriginalMtime < files[reply.path].mtime

\* C34: a read failure during a scan costs the snapshot only the subtree
\* that could not be read: a step of a scan drops no entry the scan has
\* already collected and no entry it has listed and still has to visit,
\* whether the scan goes on or publishes its result.
C34_FailureIsLocal ==
  [][\A t \in Running :
       (t.kind = "refresh" /\ CopiesIn(t, tasks') < CopiesIn(t, tasks))
         => \/ \E u \in BagToSet(tasks') :
                 /\ u.kind = "refresh" /\ CopiesIn(u, tasks') > CopiesIn(u, tasks)
                 /\ IsPrefix(t.list, u.list)
                 /\ \A i \in 2..Len(t.work) : \E j \in 1..Len(u.work) : u.work[j] = t.work[i]
            \/ /\ BagCardinality(tasks') < BagCardinality(tasks)
               /\ IsPrefix(t.list, fileSystemData')
               /\ Len(t.work) <= 1]_vars

\* C35: the upload or remote delete started by an event for path P runs on
\* its own.  Each of its steps can be taken whatever else is in flight; a
\* step changes no object but P's, no local file and no other task; and how
\* it ends is decided by P's file and P's object alone: a skip exactly when
\* P's object is at least as new as the file, a stored object that carries
\* the file's content and time, an error only from the store or the file.
C35_PathsIndependent ==
  [][\A t \in Running :
       t.kind \in {"push", "rdel"}
         => /\ t.pc = "head" => ENABLED PushHead(t)
            /\ t.pc = "read" => ENABLED PushRead(t)
            /\ t.pc = "put"  => ENABLED PushPut(t)
            /\ t.pc = "del"  => ENABLED RemoteDelete(t)
            /\ CopiesIn(t, tasks') < CopiesIn(t, tasks)
                 => /\ \A k \in Keys \ {t.key} : remote'[k] = remote[k]
                    /\ files' = files
                    /\ \A u \in Running \ {t} : CopiesIn(u, tasks') = CopiesIn(u, tasks)
                    /\ (t.pc = "head" /\ reachable)
                         => (reply'.res = "skip" <=> SkipUpload(HeadObject(t.key), t.mtime))
                    /\ reply'.res = "uploaded"
                         => /\ remote'[t.key].body = t.body
                            /\ remote'[t.key].meta = ToISOString(t.mtime)
                    /\ reply'.res = "deleted" => ~remote'[t.key].exists
                    /\ reply'.res = "error"
                         => (~reachable \/ ~files[t.path].exists)]_vars

\* the upload for d/f has just stored its object while the upload for f,
\* started before it, still waits for the answer to its metadata request
C35_Witness ==
  /\ reply.kind = "push" /\ reply.res = "uploaded" /\ reply.path = <<"U", "d", "f">>
  /\ remote[<<"d", "f">>].body = MaxContent
  /\ \E t \in Running :
       /\ t.kind = "push" /\ t.pc = "head" /\ t.path = <<"U", "f">>
       /\ t.mtime < files[<<"U", "d", "f">>].mtime

\* C36: once every upload started for a file has finished and no event is
\* pending, the object of each imported file holds the file's content and
\* carries its modification time: no older version stays stored.
C36_LatestVersionStored ==
  AtRest
    => \A p \in AllFiles :
         files[p].exists
           => /\ remote[KeyOf(p)].exists
              /\ remote[KeyOf(p)].body = files[p].content
              /\ remote[KeyOf(p)].meta = ToISOString(files[p].mtime)

\* C37: once every refresh has finished and no event is pending, the
\* published snapshot is that of a scan started after the last change: it
\* lists exactly the entries the tree holds, files with their current
\* modification times.
C37_LastScanWins ==
  AtRest
    => /\ \A i \in 1..Len(fileSystemData) :
            \E j \in 1..Len(EntryOrder) :
              LET e == EntryOrder[j] IN
              /\ IsDir(e) \/ IsFile(e)
              /\ fileSystemData[i] = Node(e)
       /\ \A j \in 1..Len(EntryOrder) :
            LET e == EntryOrder[j] IN
            ((IsDir(e) \/ IsFile(e)) /\ Basename(e) \notin DotNames)
              => \E i \in 1..Len(fileSystemData) : fileSystemData[i] = Node(e)

\* C38: the store never holds an object whose name begins with a dot: no
\* upload, started by a watcher event, by push-all or by the add an import
\* emits itself, is made for a dotfile.
C38_NoDotfileUploaded ==
  \A k \in Keys : remote[k].exists => Basename(k) \notin DotNames

\* C39: a forced pull pass whose listing of the bucket fails in transport
\* ends at once and the force-sync handler returns {success: false}.
C39_ListingFailureReported ==
  [][\A t \in Running :
       (t.kind = "pull" /\ t.pc = "list" /\ ~reachable
          /\ CopiesIn(t, tasks') < CopiesIn(t, tasks))
         => /\ reply'.kind = "pull"
            /\ reply'.ret.returned /\ ~reply'.ret.success]_vars

\* C40: a download of model M that completes leaves M's data under M's own
\* file name and no temporary file of M; one that fails, and one that is
\* cancelled, leave no temporary file of M.
C40_OwnFileName ==
  [][/\ (reply'.kind = "download" /\ reply'.res = "ok")
          => /\ llm'.dir[<<reply'.src, "gguf">>] = reply'.src
             /\ llm'.dir[<<reply'.src, "download">>] = "none"
     /\ (reply'.kind = "download" /\ reply'.res = "error")
          => llm'.dir[<<reply'.src, "download">>] = "none"
     /\ \A t \in BagToSet(tasks') :
          (t.kind = "download" /\ t.pc = "aborted"
             /\ CopiesIn(t, tasks') > CopiesIn(t, tasks))
            => llm'.dir[<<t.src, "download">>] = "none"]_vars

====
